---- MODULE Spec2Model ----
(***************************************************************************)
(* Deep-link queue / dispatch state machine of electron-launch-handler.    *)
(*                                                                         *)
(* The model follows src/src/queue.ts (DeepLinkQueue) and                  *)
(* src/src/deep-links.ts (createDeepLinkManager).  JavaScript's run-to-    *)
(* completion scheduling is modelled explicitly: a synchronous call is one *)
(* step, and everything that continues "after an await" or "on the next    *)
(* tick" is a continuation record in the microtask queue, run in FIFO      *)
(* order by RunMicrotask.                                                  *)
(***************************************************************************)
EXTENDS Integers, Sequences, FiniteSets, TLC

(***************************************************************************)
(* Bounds of the exploration.                                              *)
(***************************************************************************)
\* number of deep links handed to the pipeline (handleDeepLink or
\* queueDeepLink calls, re-queues by the consumer included)
MaxArrivals == 3
\* capacity explored for the stand-alone DeepLinkQueue
MaxQueue == 3
\* number of deep links in the exploration of infinite behaviours
MaxLiveArrivals == 2
\* length of the argument vectors handed to the platform extractors
MaxArgs == 3
\* number of deep links in the exploration of setupInstance
MaxSetupArrivals == 1
\* the length of the strings handed to the url-parser
MaxUrlLen == 5

(***************************************************************************)
(* Strings are sequences of characters, so that parsing, lower-casing and  *)
(* the registry membership test are computed and not assumed.              *)
(***************************************************************************)
UrlA     == <<"M", ":", "/", "/", "a">>      \* M://a  (upper-case scheme)
UrlOther == <<"o", ":", "/", "/", "a">>      \* o://a
UrlBad   == <<":", "/", "/", "a">>           \* ://a   (no scheme)
Urls     == {UrlA, UrlOther, UrlBad}

\* DeepLinkIntent
Intents == {"launch", "open-url"}
\* the optional `intent` argument of queueDeepLink left out
Undefined == "undefined"

\* registered scheme lists the manager can be created with: x and m, or none
ProtocolConfigs == {<< <<"x">>, <<"m">> >>, <<>>}

\* ASCII letters of the alphabet in use: what a scheme starts with and,
\* no digit, '+', '-' or '.' being in use, what it consists of
SchemeStart == {"m", "M", "o", "x", "a"}
SchemeChars == SchemeStart

\* String.prototype.toLowerCase on the alphabet in use
toLowerCase(c) == IF c = "M" THEN "m" ELSE c

\* index of the first ':' of s, 0 when there is none
IndexOfColon(s) ==
    IF \E i \in 1..Len(s) : s[i] = ":"
    THEN CHOOSE i \in 1..Len(s) : s[i] = ":" /\ \A j \in 1..(i-1) : s[j] # ":"
    ELSE 0

\* index of the first '/' of s, 0 when there is none
IndexOfSlash(s) ==
    IF \E i \in 1..Len(s) : s[i] = "/"
    THEN CHOOSE i \in 1..Len(s) : s[i] = "/" /\ \A j \in 1..(i-1) : s[j] # "/"
    ELSE 0

\* the C0 control characters and the space, of which the space is in use
ControlOrSpace == {" "}
\* the characters a port consists of (none is in use)
Digits == {}

\* the URL parser first removes leading and trailing C0 control or space
trimControlOrSpace(s) ==
    LET keep == {i \in 1..Len(s) : s[i] \notin ControlOrSpace} IN
    IF s = <<>> \/ (s[1] \notin ControlOrSpace /\ s[Len(s)] \notin ControlOrSpace)
    THEN s
    ELSE IF keep = {}
    THEN <<>>
    ELSE SubSeq(s, CHOOSE i \in keep : \A j \in keep : i <= j,
                   CHOOSE i \in keep : \A j \in keep : j <= i)

\* host and port of the authority of a URL whose scheme is not special:
\* the host is opaque and must hold no forbidden code point (the space);
\* a ':' ends a host that must not be empty and starts the port
parseAuthority(auth) ==
    LET c == IndexOfColon(auth)
        host == IF c = 0 THEN auth ELSE SubSeq(auth, 1, c - 1)
        port == IF c = 0 THEN <<>> ELSE SubSeq(auth, c + 1, Len(auth))
    IN /\ \A i \in 1..Len(host) : host[i] \notin ControlOrSpace
       /\ c # 0 => host # <<>>
       /\ \A i \in 1..Len(port) : port[i] \in Digits

\* the authority of what follows "scheme:" when that starts with "//": up to
\* the next '/' or the end
authorityOf(r) ==
    LET a == SubSeq(r, 3, Len(r))
        e == IndexOfSlash(a)
    IN IF e = 0 THEN a ELSE SubSeq(a, 1, e - 1)

\* what `new URL(input)` throws
TypeError == [ok |-> FALSE, thrown |-> TRUE]

\* the URL parser on a trimmed string without a base: TypeError unless s is
\* a scheme and ':' followed by an authority that parses or by a path (any
\* characters); `protocol` is the lower-cased scheme with its ':'
basicURLParser(s) ==
    LET c == IndexOfColon(s)
        r == SubSeq(s, c + 1, Len(s))
    IN IF ~ /\ c >= 2
            /\ s[1] \in SchemeStart
            /\ \A k \in 1..(c-1) : s[k] \in SchemeChars
       THEN TypeError
       ELSE IF /\ Len(r) >= 2 /\ r[1] = "/" /\ r[2] = "/"
               /\ \E rest \in {r} : \E auth \in {authorityOf(rest)} :
                      ~parseAuthority(auth)
       THEN TypeError
       ELSE [ok       |-> TRUE,
             protocol |-> [k \in 1..c |-> toLowerCase(s[k])],
             rest     |-> r]

\* `new URL(input)`: the input is trimmed and then parsed (the one-element
\* sets give the input and the trimmed string a value each, once)
URL(input) ==
    CHOOSE parsed \in {basicURLParser(s) :
                          s \in {trimControlOrSpace(i) : i \in {input}}} : TRUE

\* the value a failed parse returns
Null == [ok |-> FALSE]

\* parseDeepLink that returns parsed.protocol as it is
parseDeepLink_rawProtocol(url) ==
    CHOOSE result \in {
        IF parsed.ok
        THEN [ok |-> TRUE, url |-> url, protocol |-> parsed.protocol, rest |-> parsed.rest]
        ELSE Null : parsed \in {URL(url)}} : TRUE

\* parseDeepLink: null when `new URL(url)` throws; otherwise the url as it
\* was given and parsed.protocol.replace(/:$/, '')
parseDeepLink(url) ==
    CHOOSE result \in {
        IF parsed.ok
        THEN [ok       |-> TRUE,
              url      |-> url,
              protocol |-> IF parsed.protocol[Len(parsed.protocol)] = ":"
                           THEN SubSeq(parsed.protocol, 1, Len(parsed.protocol) - 1)
                           ELSE parsed.protocol,
              rest     |-> parsed.rest]
        ELSE Null : parsed \in {URL(url)}} : TRUE

\* createDeepLinkContext: the parse result augmented with the intent
createDeepLinkContext(url, intent) ==
    CHOOSE context \in {
        IF p.ok
        THEN [ok |-> TRUE, url |-> p.url, protocol |-> p.protocol, intent |-> intent]
        ELSE Null : p \in {parseDeepLink(url)}} : TRUE

\* Array.prototype.includes
includes(arr, x) == \E i \in 1..Len(arr) : arr[i] = x

(***************************************************************************)
(* Platform handlers (src/src/platforms): the deep link of an argument     *)
(* vector and the Squirrel.Windows event of process.argv.                  *)
(***************************************************************************)
\* process.platform; "freebsd" stands for every platform without a handler
\* of its own
Platforms == {"darwin", "win32", "linux", "freebsd"}

\* command-line arguments: the executable, deep links, and a string too
\* short to hold a scheme prefix
ArgExe    == <<"e">>
UrlLowerA == <<"m", ":", "/", "/", "a">>     \* m://a
UrlLowerB == <<"m", ":", "/", "/", "b">>     \* m://b
UrlX      == <<"x", ":", "/", "/", "a">>     \* x://a
ArgShort  == <<"m", ":", "/">>               \* m:/
Args == {ArgExe, UrlLowerA, UrlLowerB, UrlX, ArgShort}

\* options.protocols
ProtocolLists == {<<>>, << <<"m">> >>, << <<"x">>, <<"m">> >>}

\* the value `undefined` of an extractor, and a string it returns
NotFound == [found |-> FALSE]
Found(arg) == [found |-> TRUE, url |-> arg]

\* String.prototype.startsWith
startsWith(str, prefix) ==
    /\ Len(str) >= Len(prefix)
    /\ SubSeq(str, 1, Len(prefix)) = prefix

\* the inner loop of the extractors: `for (const protocol of protocols)`
\* with the test arg.startsWith(`${protocol}://`)
RECURSIVE matchesProtocol(_, _, _)
matchesProtocol(arg, protocolList, k) ==
    IF k > Len(protocolList)
    THEN FALSE
    ELSE IF startsWith(arg, protocolList[k] \o <<":", "/", "/">>)
    THEN TRUE
    ELSE matchesProtocol(arg, protocolList, k + 1)

\* `for (const arg of argv)`, from position i on
RECURSIVE scanForward(_, _, _)
scanForward(argv, protocolList, i) ==
    IF i > Len(argv)
    THEN NotFound
    ELSE IF matchesProtocol(argv[i], protocolList, 1)
    THEN Found(argv[i])
    ELSE scanForward(argv, protocolList, i + 1)

\* `for (let i = argv.length - 1; i >= 0; i--)`, from position i down
RECURSIVE scanBackward(_, _, _)
scanBackward(argv, protocolList, i) ==
    IF i < 1
    THEN NotFound
    ELSE IF matchesProtocol(argv[i], protocolList, 1)
    THEN Found(argv[i])
    ELSE scanBackward(argv, protocolList, i - 1)

macosExtractDeepLinkFromArgs(argv, protocolList) == scanForward(argv, protocolList, 1)

linuxExtractDeepLinkFromArgs(argv, protocolList) == scanForward(argv, protocolList, 1)

\* the Windows extractor scanning front to back
windowsExtractDeepLinkFromArgs_forward(argv, protocolList) ==
    scanForward(argv, protocolList, 1)

windowsExtractDeepLinkFromArgs(argv, protocolList) ==
    scanBackward(argv, protocolList, Len(argv))

\* getPlatformHandler().extractDeepLinkFromArgs
extractDeepLinkFromArgs(os, argv, protocolList) ==
    CASE os = "darwin" -> macosExtractDeepLinkFromArgs(argv, protocolList)
      [] os = "win32"  -> windowsExtractDeepLinkFromArgs(argv, protocolList)
      [] os = "linux"  -> linuxExtractDeepLinkFromArgs(argv, protocolList)
      [] OTHER         -> linuxExtractDeepLinkFromArgs(argv, protocolList)

\* the Squirrel.Windows events, as they appear in process.argv
\* --squirrel-install
SquirrelInstall ==
    <<"-", "-", "s", "q", "u", "i", "r", "r", "e", "l", "-", "i", "n", "s", "t", "a", "l", "l">>
\* --squirrel-updated
SquirrelUpdated ==
    <<"-", "-", "s", "q", "u", "i", "r", "r", "e", "l", "-", "u", "p", "d", "a", "t", "e", "d">>
\* --squirrel-uninstall
SquirrelUninstall ==
    <<"-", "-", "s", "q", "u", "i", "r", "r", "e", "l", "-", "u", "n", "i", "n", "s", "t", "a", "l", "l">>
\* --squirrel-obsolete
SquirrelObsolete ==
    <<"-", "-", "s", "q", "u", "i", "r", "r", "e", "l", "-", "o", "b", "s", "o", "l", "e", "t", "e">>
\* --squirrel-firstrun
SquirrelFirstrun ==
    <<"-", "-", "s", "q", "u", "i", "r", "r", "e", "l", "-", "f", "i", "r", "s", "t", "r", "u", "n">>
\* the array squirrelEvents of getSquirrelEvent
squirrelEvents ==
    <<SquirrelInstall, SquirrelUpdated, SquirrelUninstall, SquirrelObsolete,
      SquirrelFirstrun>>

\* `for (const arg of argv)` of getSquirrelEvent, from position i on
RECURSIVE scanSquirrel(_, _)
scanSquirrel(argv, i) ==
    IF i > Len(argv)
    THEN NotFound
    ELSE IF includes(squirrelEvents, argv[i])
    THEN Found(argv[i])
    ELSE scanSquirrel(argv, i + 1)

getSquirrelEvent(argv) == scanSquirrel(argv, 1)

\* createWindowsHandler().handleStartupEvents: TRUE when the app is to quit.
\* handleSquirrel is FALSE for options.windows.handleSquirrelEvents === false
windowsHandleStartupEvents(handleSquirrel, argv) ==
    IF ~handleSquirrel
    THEN FALSE
    ELSE LET squirrelEvent == getSquirrelEvent(argv) IN
         IF ~squirrelEvent.found
         THEN FALSE
         ELSE CASE squirrelEvent.url = SquirrelInstall   -> TRUE
                [] squirrelEvent.url = SquirrelUpdated   -> TRUE
                [] squirrelEvent.url = SquirrelUninstall -> TRUE
                [] squirrelEvent.url = SquirrelObsolete  -> TRUE
                [] squirrelEvent.url = SquirrelFirstrun  -> FALSE
                [] OTHER                                 -> FALSE

\* platformHandler.handleStartupEvents?.(options): only the Windows handler
\* has the method
handleStartupEvents(os, handleSquirrel, argv) ==
    IF os = "win32"
    THEN windowsHandleStartupEvents(handleSquirrel, argv)
    ELSE FALSE

\* buildShortcutArgs(action, target, options.windows.squirrelOptions): the
\* arguments for Update.exe; opts.createDesktopShortcut and
\* opts.createStartMenuShortcut are FALSE for an option set to false
buildShortcutArgs(action, opts) ==
    IF action = "create"
    THEN IF opts.createDesktopShortcut /\ opts.createStartMenuShortcut
         THEN <<"--createShortcut">>
         ELSE IF opts.createDesktopShortcut
         THEN <<"--createShortcut", "--shortcut-locations=Desktop">>
         ELSE IF opts.createStartMenuShortcut
         THEN <<"--createShortcut", "--shortcut-locations=StartMenu">>
         ELSE <<>>
    ELSE <<"--removeShortcut">>

\* `if (args.length > 0) runSquirrelCommand(args, () => app.quit()) else
\* app.quit()`: Update.exe is spawned with app.quit as its 'close' listener,
\* or app.quit is called at once
quitAfter(args) ==
    IF Len(args) > 0 THEN <<"spawnUpdateExe">> ELSE <<"quit">>

\* the Windows handler that lets an obsolete version run on
windowsStartupCalls_obsoleteRuns(handleSquirrel, argv, opts, shortcutExists) ==
    IF ~handleSquirrel
    THEN <<>>
    ELSE LET squirrelEvent == getSquirrelEvent(argv) IN
         IF ~squirrelEvent.found
         THEN <<>>
         ELSE CASE squirrelEvent.url = SquirrelInstall ->
                     quitAfter(buildShortcutArgs("create", opts))
                [] squirrelEvent.url = SquirrelUpdated ->
                     IF shortcutExists
                     THEN quitAfter(buildShortcutArgs("create", opts))
                     ELSE <<"quit">>
                [] squirrelEvent.url = SquirrelUninstall ->
                     <<"spawnUpdateExe">>
                [] OTHER -> <<>>

\* the calls createWindowsHandler().handleStartupEvents makes on the host,
\* in order: "quit" for app.quit(), "spawnUpdateExe" for runSquirrelCommand;
\* shortcutExists is what desktopShortcutExists(shortcutName) returns
windowsStartupCalls(handleSquirrel, argv, opts, shortcutExists) ==
    IF ~handleSquirrel
    THEN <<>>
    ELSE LET squirrelEvent == getSquirrelEvent(argv) IN
         IF ~squirrelEvent.found
         THEN <<>>
         ELSE CASE squirrelEvent.url = SquirrelInstall ->
                     quitAfter(buildShortcutArgs("create", opts))
                [] squirrelEvent.url = SquirrelUpdated ->
                     IF shortcutExists
                     THEN quitAfter(buildShortcutArgs("create", opts))
                     ELSE <<"quit">>
                [] squirrelEvent.url = SquirrelUninstall ->
                     <<"spawnUpdateExe">>
                [] squirrelEvent.url = SquirrelObsolete ->
                     <<"quit">>
                [] squirrelEvent.url = SquirrelFirstrun ->
                     <<>>
                [] OTHER -> <<>>

\* the host calls of platformHandler.handleStartupEvents?.(options)
startupCalls(os, handleSquirrel, argv, opts, shortcutExists) ==
    IF os = "win32"
    THEN windowsStartupCalls(handleSquirrel, argv, opts, shortcutExists)
    ELSE <<>>

(***************************************************************************)
(* State.                                                                  *)
(***************************************************************************)
VARIABLES
    queue,        \* DeepLinkQueue.queue: sequence of [url, intent, id]
    processed,    \* DeepLinkQueue.processed
    protocols,    \* the `protocols` argument of createDeepLinkManager
    hasHandler,   \* options.onDeepLink is configured
    microtasks,   \* the job queue: continuations waiting for their turn
    inflight,     \* consumer promises not settled yet, with their continuation
    calls,        \* history: the consumer invocations, in order
    failed,       \* history: ids whose consumer failure was caught and logged
    escaped,      \* a consumer failure left dispatchDeepLink uncaught
    log,          \* the diagnostic sink: how often each drop was reported
    nArrivals,    \* history: how many deep links were handed to the pipeline
    drained,      \* history: the entries processPending got from drain()
    lastPending,  \* the value getPending() returned in this step
    lastDrain,    \* stand-alone queue: the value the last drain() returned
    lastPeek,     \* stand-alone queue: <<r>> for the value r peek() returned in this step
    expected,     \* stand-alone queue: the enqueue calls since construction, clear or reset
    drains,       \* stand-alone queue: drain() calls since construction or reset (capped at 2)
    marks,        \* stand-alone queue: "cleared" if a clear() has removed entries
                  \* since construction or reset, "reprocess" if a reset() has
                  \* re-armed a queue that had been drained
    platform,     \* process.platform
    processArgv,  \* process.argv
    optProtocols, \* options.protocols
    handleSquirrelEvents, \* FALSE for options.windows.handleSquirrelEvents === false
    phase,        \* "start" before setupInstance has run, "done" after
    shouldQuit,   \* InstanceManager.shouldQuit
    lock,         \* app.requestSingleInstanceLock: "unrequested", "granted", "denied"
    listening,    \* the 'second-instance' handler is registered
    osRegistered, \* the schemes this app is the default protocol client of
    protocolResult,   \* setupInstance: what registerProtocols returned
    registerAnswers,  \* history: what registerProtocol returned, call by call
    setupSteps,       \* history: what setupInstance did, in order
    lastExtract,  \* <<r>> for the value r an extractor returned in this step
    lastUnregister,   \* <<c>> for the unregisterProtocol calls c made in this step
    parseInput,   \* url-parser as functions: the string handed to them
    lastParse     \* url-parser as functions: <<r>> for the call made and its result

vars == <<queue, processed, protocols, hasHandler, microtasks, inflight, calls,
          failed, escaped, log, nArrivals, drained, lastPending, lastDrain, lastPeek,
          expected, drains, marks, platform, processArgv, optProtocols,
          handleSquirrelEvents, phase, shouldQuit, lock, listening, osRegistered,
          protocolResult, registerAnswers, setupSteps, lastExtract, lastUnregister,
          parseInput, lastParse>>

\* what setupInstance reads and decides
SetupVars == <<platform, processArgv, optProtocols, handleSquirrelEvents, phase,
               shouldQuit, lock, listening, osRegistered, protocolResult,
               registerAnswers, setupSteps>>

ParseVars == <<parseInput, lastParse>>

\* The manager state as one value, so that a synchronous call chain
\* (handleDeepLink -> dispatchDeepLink -> consumer -> queueDeepLink ...)
\* is a composition of operators.
State ==
    [queue |-> queue, processed |-> processed, protocols |-> protocols,
     hasHandler |-> hasHandler, microtasks |-> microtasks, inflight |-> inflight,
     calls |-> calls, failed |-> failed, escaped |-> escaped, log |-> log,
     nArrivals |-> nArrivals, drained |-> drained]

Apply(S) ==
    /\ queue' = S.queue
    /\ processed' = S.processed
    /\ protocols' = S.protocols
    /\ hasHandler' = S.hasHandler
    /\ microtasks' = S.microtasks
    /\ inflight' = S.inflight
    /\ calls' = S.calls
    /\ failed' = S.failed
    /\ escaped' = S.escaped
    /\ log' = S.log
    /\ nArrivals' = S.nArrivals
    /\ drained' = S.drained

(***************************************************************************)
(* DeepLinkQueue (src/src/queue.ts).  `id` is a history tag of the entry:  *)
(* the number of its arrival; no operation reads it.                       *)
(***************************************************************************)
isProcessed(S) == S.processed

\* enqueue that puts the new entry in front
enqueue_front(S, url, intent, id) ==
    IF S.processed
    THEN S
    ELSE [S EXCEPT !.queue = <<[url |-> url, intent |-> intent, id |-> id]>> \o @]

\* enqueue without the `if (this.processed) return`
enqueue_always(S, url, intent, id) ==
    [S EXCEPT !.queue = Append(@, [url |-> url, intent |-> intent, id |-> id])]

enqueue(S, url, intent, id) ==
    IF S.processed
    THEN S
    ELSE [S EXCEPT !.queue = Append(@, [url |-> url, intent |-> intent, id |-> id])]

\* drain that marks the queue processed but keeps `this.queue`
drain_keepEntries(S) ==
    IF S.processed
    THEN [state |-> S, result |-> <<>>]
    ELSE [state |-> [S EXCEPT !.processed = TRUE], result |-> S.queue]

\* drain without `this.processed = true`
drain_unmarked(S) ==
    IF S.processed
    THEN [state |-> S, result |-> <<>>]
    ELSE [state |-> [S EXCEPT !.queue = <<>>], result |-> S.queue]

\* drain(): `state` is the queue afterwards, `result` the array returned
drain(S) ==
    IF S.processed
    THEN [state |-> S, result |-> <<>>]
    ELSE [state  |-> [S EXCEPT !.processed = TRUE, !.queue = <<>>],
          result |-> S.queue]

\* peek that hands out the internal array: `return this.queue`
peek_alias(S) == [result |-> S.queue, sameArray |-> TRUE, sameItems |-> TRUE]

\* peek(): `result` is the array returned; `map` builds a new array and
\* `{ ...item }` a new object per entry, so the value returned shares neither
\* the array nor the entry objects with this.queue
peek(S) == [result |-> S.queue, sameArray |-> FALSE, sameItems |-> FALSE]

\* what the caller of peek() can do to the value r it got
Mutations == {"push", "setUrl"}

\* the queue after the caller has changed r: an element pushed on the array,
\* or the url of its first element overwritten
mutateReturned(S, r, m, url) ==
    CASE m = "push" ->
            IF r.sameArray
            THEN [S EXCEPT !.queue = Append(@, [url |-> url, intent |-> "launch", id |-> 0])]
            ELSE S
      [] m = "setUrl" ->
            IF r.sameItems /\ S.queue # <<>>
            THEN [S EXCEPT !.queue[1].url = url]
            ELSE S

\* clear that also sets `this.processed = true`, as drain does
clear_processed(S) == [S EXCEPT !.queue = <<>>, !.processed = TRUE]

\* clear that leaves the oldest entry in the buffer
clear_keepOldest(S) ==
    [S EXCEPT !.queue = IF @ = <<>> THEN <<>> ELSE <<Head(@)>>]

clear(S) == [S EXCEPT !.queue = <<>>]

size(S) == Len(S.queue)

hasItems(S) == Len(S.queue) > 0

\* reset without `this.processed = false`
reset_keepProcessed(S) == [S EXCEPT !.queue = <<>>]

reset(S) == [S EXCEPT !.queue = <<>>, !.processed = FALSE]

(***************************************************************************)
(* Continuations.                                                          *)
(*   deferred       : deferDispatch(() => handleDeepLink(url, intent))     *)
(*   resumeDispatch : dispatchDeepLink after `await options.onDeepLink()`  *)
(*   resumeLoop     : the drain loop of processPending after               *)
(*                    `await dispatchDeepLink()`; rest = entries to go     *)
(***************************************************************************)
Deferred(url, intent, id) ==
    [kind |-> "deferred", url |-> url, intent |-> intent, id |-> id,
     rejected |-> FALSE, fromLoop |-> FALSE, rest |-> <<>>]

ResumeDispatch(id, rejected, fromLoop, rest) ==
    [kind |-> "resumeDispatch", url |-> <<>>, intent |-> "", id |-> id,
     rejected |-> rejected, fromLoop |-> fromLoop, rest |-> rest]

ResumeLoop(rest) ==
    [kind |-> "resumeLoop", url |-> <<>>, intent |-> "", id |-> 0,
     rejected |-> FALSE, fromLoop |-> TRUE, rest |-> rest]

\* deferDispatch that puts fn ahead of the jobs already waiting
deferDispatch_front(S, url, intent, id) ==
    [S EXCEPT !.microtasks = <<Deferred(url, intent, id)>> \o @]

\* deferDispatch: Promise.resolve().then(fn) puts fn in the job queue
deferDispatch(S, url, intent, id) ==
    [S EXCEPT !.microtasks = Append(@, Deferred(url, intent, id))]

\* the drain loop is not woken: `await` left out of reach of the resolution
dispatchReturns_lost(S, fromLoop, rest) == S

\* dispatchDeepLink has returned: its promise resolves, which wakes the
\* drain loop awaiting it (a handleDeepLink caller discards the promise)
dispatchReturns(S, fromLoop, rest) ==
    IF fromLoop
    THEN [S EXCEPT !.microtasks = Append(@, ResumeLoop(rest))]
    ELSE S

(***************************************************************************)
(* What one consumer invocation does: an API call it makes on the instance *)
(* manager while it runs, and how it ends.                                 *)
(***************************************************************************)
Outcomes == {"return", "throw", "promise"}
Reentries == {"none", "queueDeepLink", "processPending", "clearPending"}
AllBehaviours == [outcome : Outcomes, reentrant : Reentries]
Plain == [outcome |-> "return", reentrant |-> "none"]

\* the behaviours open to a consumer invoked when n deep links have arrived
Behaviours(n) ==
    {b \in AllBehaviours : b.reentrant = "queueDeepLink" => n < MaxArrivals}

\* a deep link is handed to the pipeline: it gets the next id
arrive(S) == [S EXCEPT !.nArrivals = @ + 1]

RECURSIVE handleDeepLink(_, _, _, _, _)
RECURSIVE dispatchDeepLink(_, _, _, _, _, _, _)
RECURSIVE drainLoop(_, _, _)
RECURSIVE processPending(_, _)
RECURSIVE queueDeepLink(_, _, _, _, _)
RECURSIVE consumer(_, _, _, _)

(***************************************************************************)
(* createDeepLinkManager (src/src/deep-links.ts).                          *)
(***************************************************************************)
\* handleDeepLink without the isProcessed test: dispatches at once
handleDeepLink_eager(S, url, intent, id, b) ==
    LET context == createDeepLinkContext(url, intent) IN
    IF ~context.ok
    THEN [S EXCEPT !.log.failedToParse = @ + 1]
    ELSE IF ~includes(S.protocols, context.protocol)
    THEN [S EXCEPT !.log.unregistered = @ + 1]
    ELSE dispatchDeepLink(S, url, context, id, FALSE, <<>>, b)

\* handleDeepLink that always hands the URL to the queue
handleDeepLink_alwaysQueue(S, url, intent, id, b) ==
    LET context == createDeepLinkContext(url, intent) IN
    IF ~context.ok
    THEN [S EXCEPT !.log.failedToParse = @ + 1]
    ELSE IF ~includes(S.protocols, context.protocol)
    THEN [S EXCEPT !.log.unregistered = @ + 1]
    ELSE enqueue(S, url, intent, id)

\* handleDeepLink without the protocols.includes test
handleDeepLink_noFilter(S, url, intent, id, b) ==
    LET context == createDeepLinkContext(url, intent) IN
    IF ~context.ok
    THEN [S EXCEPT !.log.failedToParse = @ + 1]
    ELSE IF ~isProcessed(S)
    THEN enqueue(S, url, intent, id)
    ELSE dispatchDeepLink(S, url, context, id, FALSE, <<>>, b)

\* handleDeepLink that queues a URL it could not parse
handleDeepLink_keepUnparsed(S, url, intent, id, b) ==
    LET context == createDeepLinkContext(url, intent) IN
    IF ~context.ok
    THEN enqueue([S EXCEPT !.log.failedToParse = @ + 1], url, intent, id)
    ELSE IF ~includes(S.protocols, context.protocol)
    THEN [S EXCEPT !.log.unregistered = @ + 1]
    ELSE IF ~isProcessed(S)
    THEN enqueue(S, url, intent, id)
    ELSE dispatchDeepLink(S, url, context, id, FALSE, <<>>, b)

\* handleDeepLink that tests the registry on the dispatch path only: before
\* processPending every URL that parses is queued
handleDeepLink_filterLate(S, url, intent, id, b) ==
    LET context == createDeepLinkContext(url, intent) IN
    IF ~context.ok
    THEN [S EXCEPT !.log.failedToParse = @ + 1]
    ELSE IF ~isProcessed(S)
    THEN enqueue(S, url, intent, id)
    ELSE IF ~includes(S.protocols, context.protocol)
    THEN [S EXCEPT !.log.unregistered = @ + 1]
    ELSE dispatchDeepLink(S, url, context, id, FALSE, <<>>, b)

\* handleDeepLink with the `return` after enqueue missing
handleDeepLink_fallThrough(S, url, intent, id, b) ==
    LET context == createDeepLinkContext(url, intent) IN
    IF ~context.ok
    THEN [S EXCEPT !.log.failedToParse = @ + 1]
    ELSE IF ~includes(S.protocols, context.protocol)
    THEN [S EXCEPT !.log.unregistered = @ + 1]
    ELSE dispatchDeepLink(IF ~isProcessed(S) THEN enqueue(S, url, intent, id) ELSE S,
                          url, context, id, FALSE, <<>>, b)

\* handleDeepLink that drops a deep link while a consumer promise is open
handleDeepLink_whenIdle(S, url, intent, id, b) ==
    LET context == createDeepLinkContext(url, intent) IN
    IF ~context.ok
    THEN [S EXCEPT !.log.failedToParse = @ + 1]
    ELSE IF ~includes(S.protocols, context.protocol)
    THEN [S EXCEPT !.log.unregistered = @ + 1]
    ELSE IF ~isProcessed(S)
    THEN enqueue(S, url, intent, id)
    ELSE IF S.inflight # {}
    THEN S
    ELSE dispatchDeepLink(S, url, context, id, FALSE, <<>>, b)

handleDeepLink(S, url, intent, id, b) ==
    LET context == createDeepLinkContext(url, intent) IN
    IF ~context.ok
    THEN [S EXCEPT !.log.failedToParse = @ + 1]
    ELSE IF ~includes(S.protocols, context.protocol)
    THEN [S EXCEPT !.log.unregistered = @ + 1]
    ELSE IF ~isProcessed(S)
    THEN enqueue(S, url, intent, id)
    ELSE dispatchDeepLink(S, url, context, id, FALSE, <<>>, b)

\* dispatchDeepLink without its try/catch: a throwing consumer ends the call
dispatchDeepLink_noCatch(S, url, context, id, fromLoop, rest, b) ==
    IF S.hasHandler
    THEN LET S1 == [S EXCEPT !.calls =
                        Append(@, [url |-> url, intent |-> context.intent, id |-> id])]
             S2 == consumer(S1, url, context, b)
         IN CASE b.outcome = "return" ->
                   [S2 EXCEPT !.microtasks =
                        Append(@, ResumeDispatch(id, FALSE, fromLoop, rest))]
              [] b.outcome = "throw" ->
                   [S2 EXCEPT !.escaped = TRUE]
              [] b.outcome = "promise" ->
                   [S2 EXCEPT !.inflight =
                        @ \cup {[id |-> id, fromLoop |-> fromLoop, rest |-> rest]}]
    ELSE dispatchReturns(S, fromLoop, rest)

\* fromLoop/rest: the caller is the drain loop, which awaits the result and
\* then goes on with `rest`
dispatchDeepLink(S, url, context, id, fromLoop, rest, b) ==
    IF S.hasHandler
    THEN LET S1 == [S EXCEPT !.calls =
                        Append(@, [url |-> url, intent |-> context.intent, id |-> id])]
             S2 == consumer(S1, url, context, b)
         IN CASE b.outcome = "return" ->
                   [S2 EXCEPT !.microtasks =
                        Append(@, ResumeDispatch(id, FALSE, fromLoop, rest))]
              [] b.outcome = "throw" ->
                   dispatchReturns([S2 EXCEPT !.failed = @ \cup {id}], fromLoop, rest)
              [] b.outcome = "promise" ->
                   [S2 EXCEPT !.inflight =
                        @ \cup {[id |-> id, fromLoop |-> fromLoop, rest |-> rest]}]
    ELSE dispatchReturns(S, fromLoop, rest)

\* the application's onDeepLink, up to the point where it returns, throws or
\* hands back a promise
consumer(S, url, context, b) ==
    CASE b.reentrant = "none" -> S
      [] b.reentrant = "queueDeepLink" ->
            LET S1 == arrive(S) IN
            queueDeepLink(S1, url, context.intent, S1.nArrivals, Plain)
      [] b.reentrant = "processPending" -> processPending(S, Plain)
      [] b.reentrant = "clearPending" -> clear(S)

\* the loop of processPending without `await`: it goes on to the next entry
\* as soon as dispatchDeepLink has handed back its promise
RECURSIVE drainLoop_noAwait(_, _, _)
drainLoop_noAwait(S, rest, b) ==
    IF rest = <<>>
    THEN S
    ELSE LET entry == Head(rest)
             context == createDeepLinkContext(entry.url, entry.intent)
         IN IF context.ok
            THEN drainLoop_noAwait(
                     dispatchDeepLink(S, entry.url, context, entry.id, FALSE, <<>>, b),
                     Tail(rest), b)
            ELSE drainLoop_noAwait(S, Tail(rest), b)

\* the loop of processPending building the context without the entry's
\* intent: createDeepLinkContext(entry.url, 'open-url')
drainLoop_openUrl(S, rest, b) ==
    IF rest = <<>>
    THEN S
    ELSE LET entry == Head(rest)
             context == createDeepLinkContext(entry.url, "open-url")
         IN IF context.ok
            THEN dispatchDeepLink(S, entry.url, context, entry.id, TRUE, Tail(rest), b)
            ELSE drainLoop(S, Tail(rest), b)

\* the body of the async loop of processPending, from its current position
\* to its next await (or its end)
drainLoop(S, rest, b) ==
    IF rest = <<>>
    THEN S
    ELSE LET entry == Head(rest)
             context == createDeepLinkContext(entry.url, entry.intent)
         IN IF context.ok
            THEN dispatchDeepLink(S, entry.url, context, entry.id, TRUE, Tail(rest), b)
            ELSE drainLoop(S, Tail(rest), b)

\* processPending that reads the entries with peek() and marks the queue
\* processed, leaving them in the queue while the loop dispatches them
processPending_peek(S, b) ==
    LET pending == IF S.processed THEN <<>> ELSE peek(S).result
        S1 == [S EXCEPT !.processed = TRUE, !.drained = @ \o pending]
    IN IF Len(pending) = 0
       THEN S1
       ELSE drainLoop(S1, pending, b)

processPending(S, b) ==
    LET pending == drain(S).result
        S1 == [drain(S).state EXCEPT !.drained = @ \o pending]
    IN IF Len(pending) = 0
       THEN S1
       ELSE drainLoop(S1, pending, b)

\* queueDeepLink without deferDispatch: hands the URL to handleDeepLink at once
queueDeepLink_sync(S, url, intentArg, id, b) ==
    LET intent == IF intentArg = Undefined THEN "open-url" ELSE intentArg IN
    handleDeepLink(S, url, intent, id, b)

\* queueDeepLink that hands the URL to the queue once it is processed,
\* instead of deferring a dispatch
queueDeepLink_enqueue(S, url, intentArg, id, b) ==
    LET intent == IF intentArg = Undefined THEN "open-url" ELSE intentArg IN
    IF isProcessed(S)
    THEN enqueue(S, url, intent, id)
    ELSE handleDeepLink(S, url, intent, id, b)

\* queueDeepLink that drops its intent argument
queueDeepLink_ignoreIntent(S, url, intentArg, id, b) ==
    IF isProcessed(S)
    THEN deferDispatch(S, url, "open-url", id)
    ELSE handleDeepLink(S, url, "open-url", id, b)

queueDeepLink(S, url, intentArg, id, b) ==
    LET intent == IF intentArg = Undefined THEN "open-url" ELSE intentArg IN
    IF isProcessed(S)
    THEN deferDispatch(S, url, intent, id)
    ELSE handleDeepLink(S, url, intent, id, b)

\* getPending: queue.peek().map((entry) => entry.url)
getPending(S) == [i \in 1..Len(peek(S).result) |-> peek(S).result[i].url]

\* clearPending that resets the queue instead of clearing it
clearPending_reset(S) == reset(S)

clearPending(S) == clear(S)

(***************************************************************************)
(* setupInstance (src/src/index.ts) and what it calls: acquireInstanceLock *)
(* (instance-lock.ts), registerProtocols (protocol-registry.ts) and the    *)
(* body of createDeepLinkManager that runs at creation.                    *)
(***************************************************************************)
\* acquireInstanceLock that goes on as the lock holder when the lock is denied
acquireInstanceLock_ignoreDenied(os, handleSquirrel, argv, granted, opts, shortcutExists) ==
    LET startup == startupCalls(os, handleSquirrel, argv, opts, shortcutExists) IN
    IF handleStartupEvents(os, handleSquirrel, argv)
    THEN [hasLock |-> FALSE, lock |-> "unrequested", listening |-> FALSE,
          steps |-> startup]
    ELSE [hasLock |-> TRUE, lock |-> IF granted THEN "granted" ELSE "denied",
          listening |-> TRUE, steps |-> startup \o <<"requestLock", "listen">>]

\* acquireInstanceLock that tells the application of every lock request
acquireInstanceLock_alwaysNotifies(os, handleSquirrel, argv, granted, opts, shortcutExists) ==
    LET startup == startupCalls(os, handleSquirrel, argv, opts, shortcutExists)
        notify == IF opts.onInstanceLockFailed THEN <<"onInstanceLockFailed">> ELSE <<>>
    IN IF handleStartupEvents(os, handleSquirrel, argv)
       THEN [hasLock |-> FALSE, lock |-> "unrequested", listening |-> FALSE,
             steps |-> startup]
       ELSE IF ~granted
       THEN [hasLock |-> FALSE, lock |-> "denied", listening |-> FALSE,
             steps |-> startup \o <<"requestLock">> \o notify]
       ELSE [hasLock |-> TRUE, lock |-> "granted", listening |-> TRUE,
             steps |-> startup \o <<"requestLock">> \o notify \o <<"listen">>]

\* granted: what app.requestSingleInstanceLock() returns if it is called;
\* opts.onInstanceLockFailed: the option is set;
\* steps: the calls made on the host and on the application, in order: those
\* of handleStartupEvents, "requestLock" for app.requestSingleInstanceLock(),
\* "onInstanceLockFailed" for options.onInstanceLockFailed() and "listen" for
\* app.on('second-instance')
acquireInstanceLock(os, handleSquirrel, argv, granted, opts, shortcutExists) ==
    LET startup == startupCalls(os, handleSquirrel, argv, opts, shortcutExists) IN
    IF handleStartupEvents(os, handleSquirrel, argv)
    THEN [hasLock |-> FALSE, lock |-> "unrequested", listening |-> FALSE,
          steps |-> startup]
    ELSE IF ~granted
    THEN [hasLock |-> FALSE, lock |-> "denied", listening |-> FALSE,
          steps |-> startup \o <<"requestLock">>
                      \o IF opts.onInstanceLockFailed
                         THEN <<"onInstanceLockFailed">>
                         ELSE <<>>]
    ELSE [hasLock |-> TRUE, lock |-> "granted", listening |-> TRUE,
          steps |-> startup \o <<"requestLock", "listen">>]

\* the loop of registerProtocols from scheme i on, leaving the loop at the
\* first scheme the platform refuses
RECURSIVE registerLoop_stopAtFailure(_, _, _)
registerLoop_stopAtFailure(protocolList, success, i) ==
    IF i > Len(protocolList)
    THEN [registered |-> <<>>, failed |-> <<>>]
    ELSE IF success[i]
    THEN [registerLoop_stopAtFailure(protocolList, success, i + 1)
             EXCEPT !.registered = <<protocolList[i]>> \o @]
    ELSE [registered |-> <<>>, failed |-> <<protocolList[i]>>]

\* the loop of registerProtocols from scheme i on; success[i] is what
\* platformHandler.registerProtocol returns for the i-th scheme
RECURSIVE registerLoop(_, _, _)
registerLoop(protocolList, success, i) ==
    IF i > Len(protocolList)
    THEN [registered |-> <<>>, failed |-> <<>>]
    ELSE LET rest == registerLoop(protocolList, success, i + 1) IN
         IF success[i]
         THEN [rest EXCEPT !.registered = <<protocolList[i]>> \o @]
         ELSE [rest EXCEPT !.failed = <<protocolList[i]>> \o @]

registerProtocols(protocolList, success) == registerLoop(protocolList, success, 1)

\* unregisterAll that goes through every configured scheme
unregisterAll_configured(result) == result.registered \o result.failed

\* unregisterAll of the value registerProtocols returned: the
\* platformHandler.unregisterProtocol calls it makes, in order
unregisterAll(result) == [i \in 1..Len(result.registered) |-> result.registered[i]]

\* createDeepLinkManager without the scan of process.argv
createDeepLinkManager_noScan(S, os, argv, registered) ==
    [S EXCEPT !.protocols = registered]

\* createDeepLinkManager that hands the launch deep link on as 'open-url'
createDeepLinkManager_openUrl(S, os, argv, registered) ==
    LET S0 == [S EXCEPT !.protocols = registered]
        launchUrl == extractDeepLinkFromArgs(os, argv, registered)
    IN IF launchUrl.found /\ launchUrl.url # <<>>
       THEN LET S1 == arrive(S0) IN
            handleDeepLink(S1, launchUrl.url, "open-url", S1.nArrivals, Plain)
       ELSE S0

\* createDeepLinkManager that hands on the first and the last argument of
\* process.argv that are deep links
createDeepLinkManager_bothEnds(S, os, argv, registered) ==
    LET S0 == [S EXCEPT !.protocols = registered]
        first == scanForward(argv, registered, 1)
        last == scanBackward(argv, registered, Len(argv))
    IN IF ~first.found
       THEN S0
       ELSE LET S1 == arrive(S0)
                H1 == handleDeepLink(S1, first.url, "launch", S1.nArrivals, Plain)
                S2 == arrive(H1)
            IN IF last.url = first.url
               THEN H1
               ELSE handleDeepLink(S2, last.url, "launch", S2.nArrivals, Plain)

\* createDeepLinkManager(options, logger, registered): the manager gets its
\* protocols and scans process.argv for a launch deep link
createDeepLinkManager(S, os, argv, registered) ==
    LET S0 == [S EXCEPT !.protocols = registered]
        launchUrl == extractDeepLinkFromArgs(os, argv, registered)
    IN IF launchUrl.found /\ launchUrl.url # <<>>
       THEN LET S1 == arrive(S0) IN
            handleDeepLink(S1, launchUrl.url, "launch", S1.nArrivals, Plain)
       ELSE S0

\* the callback setupInstance gives to acquireInstanceLock, with intent 'launch'
onSecondInstanceDeepLink_launch(S, deepLinkUrl, b) ==
    IF deepLinkUrl.found /\ deepLinkUrl.url # <<>>
    THEN LET S1 == arrive(S) IN
         handleDeepLink(S1, deepLinkUrl.url, "launch", S1.nArrivals, b)
    ELSE S

\* the callback setupInstance gives to acquireInstanceLock
onSecondInstanceDeepLink(S, deepLinkUrl, b) ==
    IF deepLinkUrl.found /\ deepLinkUrl.url # <<>>
    THEN LET S1 == arrive(S) IN
         handleDeepLink(S1, deepLinkUrl.url, "open-url", S1.nArrivals, b)
    ELSE S

\* the 'second-instance' listener of acquireInstanceLock; protocolList is
\* normalizeProtocols(options.protocols)
secondInstanceHandler(S, os, argv, protocolList, b) ==
    LET deepLinkUrl == extractDeepLinkFromArgs(os, argv, protocolList) IN
    onSecondInstanceDeepLink(S, deepLinkUrl, b)

\* setupInstance: `state` is the manager it has created (S untouched when it
\* returns the minimal manager); `steps` is what it did, in order: the steps
\* of acquireInstanceLock, then "register" for registerProtocols and "scan"
\* for createDeepLinkManager with its scan of process.argv
setupInstance(S, os, handleSquirrel, argv, protocolList, granted, success, opts, shortcutExists) ==
    LET lockResult == acquireInstanceLock(os, handleSquirrel, argv, granted, opts,
                                          shortcutExists) IN
    IF ~lockResult.hasLock
    THEN [state |-> S, shouldQuit |-> TRUE, lock |-> lockResult.lock,
          listening |-> lockResult.listening, osRegistered |-> {},
          protocolResult |-> [registered |-> <<>>, failed |-> <<>>],
          steps |-> lockResult.steps]
    ELSE LET result == registerProtocols(protocolList, success) IN
         [state |-> createDeepLinkManager(S, os, argv, result.registered),
          shouldQuit |-> FALSE, lock |-> lockResult.lock,
          listening |-> lockResult.listening,
          osRegistered |-> {result.registered[i] : i \in 1..Len(result.registered)},
          protocolResult |-> result,
          steps |-> lockResult.steps \o <<"register", "scan">>]

(***************************************************************************)
(* Initial state: a freshly created manager (no deep link in the launch    *)
(* arguments) and a freshly constructed queue.                             *)
(***************************************************************************)
\* the schemes of a list
SchemesOf(protocolList) == {protocolList[i] : i \in 1..Len(protocolList)}

\* nothing has happened yet: empty queue, no job, empty histories
Fresh ==
    /\ queue = <<>>
    /\ processed = FALSE
    /\ microtasks = <<>>
    /\ inflight = {}
    /\ calls = <<>>
    /\ failed = {}
    /\ escaped = FALSE
    /\ log = [failedToParse |-> 0, unregistered |-> 0]
    /\ nArrivals = 0
    /\ drained = <<>>
    /\ lastPending = <<>>
    /\ lastDrain = <<>>
    /\ lastPeek = <<>>
    /\ expected = <<>>
    /\ drains = 0
    /\ marks = {}
    /\ lastExtract = <<>>
    /\ lastUnregister = <<>>
    /\ lastParse = <<>>

Init ==
    /\ Fresh
    /\ protocols \in ProtocolConfigs
    /\ hasHandler \in BOOLEAN
    /\ platform = "linux"
    /\ processArgv = <<ArgExe>>
    /\ optProtocols = protocols
    /\ handleSquirrelEvents = TRUE
    /\ phase = "done"
    /\ shouldQuit = FALSE
    /\ lock = "granted"
    /\ listening = TRUE
    /\ osRegistered = SchemesOf(protocols)
    /\ protocolResult = [registered |-> protocols, failed |-> <<>>]
    /\ registerAnswers = [i \in 1..Len(protocols) |-> TRUE]
    /\ setupSteps = <<"requestLock", "listen", "register", "scan">>
    /\ parseInput = <<>>

QueueGhosts == <<lastDrain, lastPeek, expected, drains, marks>>

(***************************************************************************)
(* Operations of the manager.  lastPending is the value returned by the    *)
(* operation of the step (a getPending call), <<>> for every other one.    *)
(***************************************************************************)
\* the consumer behaviours that make a difference to the call f: where the
\* call does not reach the consumer, the one behaviour Plain stands for all
Effective(f(_), n) ==
    LET plain == f(Plain) IN
    {b \in Behaviours(n) : b = Plain \/ f(b) # plain}

NoReturn == lastPending' = <<>> /\ lastExtract' = <<>> /\ lastUnregister' = <<>>

\* a deep link delivered by the host: the macOS 'open-url' event, a
\* second-instance event, or the launch-argument scan.  Host events are
\* tasks of the event loop: they start with the job queue empty.
HandleDeepLinkOf(url, intent) ==
        /\ nArrivals < MaxArrivals
        /\ microtasks = <<>>
        /\ LET S1 == arrive(State)
               id == S1.nArrivals
               call(b) == handleDeepLink(S1, url, intent, id, b)
           IN \E b \in Effective(call, id) : Apply(call(b))
        /\ NoReturn
        /\ UNCHANGED <<QueueGhosts, SetupVars, ParseVars>>

HandleDeepLink ==
    \E url \in Urls, intent \in Intents : HandleDeepLinkOf(url, intent)

\* InstanceManager.queueDeepLink called by the application
QueueDeepLinkOf(url, intentArg) ==
        /\ nArrivals < MaxArrivals
        /\ LET S1 == arrive(State)
               id == S1.nArrivals
               call(b) == queueDeepLink(S1, url, intentArg, id, b)
           IN \E b \in Effective(call, id) : Apply(call(b))
        /\ NoReturn
        /\ UNCHANGED <<QueueGhosts, SetupVars, ParseVars>>

QueueDeepLink ==
    \E url \in Urls, intentArg \in Intents \cup {Undefined} :
        QueueDeepLinkOf(url, intentArg)

\* InstanceManager.processPendingDeepLinks called by the application
ProcessPending ==
    /\ LET call(b) == processPending(State, b)
       IN \E b \in Effective(call, nArrivals) : Apply(call(b))
    /\ NoReturn
    /\ UNCHANGED <<QueueGhosts, SetupVars, ParseVars>>

\* InstanceManager.getPendingDeepLinks
GetPending ==
    /\ lastPending' = getPending(State)
    /\ lastExtract' = <<>>
    /\ lastUnregister' = <<>>
    /\ Apply(State)
    /\ UNCHANGED <<QueueGhosts, SetupVars, ParseVars>>

\* InstanceManager.clearPendingDeepLinks
ClearPending ==
    /\ Apply(clearPending(State))
    /\ NoReturn
    /\ UNCHANGED <<QueueGhosts, SetupVars, ParseVars>>

\* the job a continuation record stands for
runJob(S, t, b) ==
    CASE t.kind = "deferred" ->
            handleDeepLink(S, t.url, t.intent, t.id, b)
      [] t.kind = "resumeDispatch" ->
            dispatchReturns(IF t.rejected
                            THEN [S EXCEPT !.failed = @ \cup {t.id}]
                            ELSE S,
                            t.fromLoop, t.rest)
      [] t.kind = "resumeLoop" ->
            drainLoop(S, t.rest, b)

\* the event loop runs the oldest job
RunMicrotask ==
    /\ microtasks # <<>>
    /\ LET S0 == [State EXCEPT !.microtasks = Tail(@)]
           call(b) == runJob(S0, Head(microtasks), b)
       IN \E b \in Effective(call, nArrivals) : Apply(call(b))
    /\ NoReturn
    /\ UNCHANGED <<QueueGhosts, SetupVars, ParseVars>>

\* a promise returned by the consumer settles: fulfilled or rejected
SettleConsumer ==
    \E p \in inflight, ok \in BOOLEAN :
        /\ Apply([State EXCEPT
                    !.inflight = @ \ {p},
                    !.microtasks = Append(@, ResumeDispatch(p.id, ~ok, p.fromLoop, p.rest))])
        /\ NoReturn
        /\ UNCHANGED <<QueueGhosts, SetupVars, ParseVars>>

Next ==
    \/ HandleDeepLink
    \/ QueueDeepLink
    \/ ProcessPending
    \/ GetPending
    \/ ClearPending
    \/ RunMicrotask
    \/ SettleConsumer

Spec == Init /\ [][Next]_vars

(***************************************************************************)
(* The stand-alone DeepLinkQueue, driven through its whole interface       *)
(* (reset included, which the manager never calls).  Entries carry id 0.   *)
(***************************************************************************)
QueueUrls == {UrlA, UrlBad}

ManagerVars == <<protocols, hasHandler, microtasks, inflight, calls, failed,
                 escaped, log, nArrivals, drained, lastPending>>

QueueInit ==
    /\ Init
    /\ protocols = <<>>
    /\ hasHandler = FALSE

Entry(url, intent) == [url |-> url, intent |-> intent, id |-> 0]

QueueEnqueue ==
    \E url \in QueueUrls, intent \in Intents :
        /\ Len(expected) < MaxQueue
        /\ LET S == enqueue(State, url, intent, 0) IN
           /\ queue' = S.queue
           /\ processed' = S.processed
        /\ expected' = Append(expected, Entry(url, intent))
        /\ lastPeek' = <<>>
        /\ UNCHANGED <<SetupVars, ParseVars, lastExtract, lastUnregister, ManagerVars, lastDrain, drains, marks>>

QueueDrain ==
    /\ lastDrain' = drain(State).result
    /\ LET S == drain(State).state IN
       /\ queue' = S.queue
       /\ processed' = S.processed
    /\ drains' = IF drains < 2 THEN drains + 1 ELSE 2
    /\ lastPeek' = <<>>
    /\ UNCHANGED <<SetupVars, ParseVars, lastExtract, lastUnregister, ManagerVars, expected, marks>>

QueuePeek ==
    /\ lastPeek' = <<peek(State)>>
    /\ UNCHANGED <<queue, processed, SetupVars, ParseVars, lastExtract, lastUnregister, ManagerVars, lastDrain, expected, drains, marks>>

\* the caller of peek() changes the value it has just been given
QueueMutateReturned ==
    \E m \in Mutations, url \in QueueUrls :
        /\ lastPeek # <<>>
        /\ LET S == mutateReturned(State, lastPeek[1], m, url) IN
           /\ queue' = S.queue
           /\ processed' = S.processed
        /\ lastPeek' = <<>>
        /\ UNCHANGED <<SetupVars, ParseVars, lastExtract, lastUnregister, ManagerVars, lastDrain, expected, drains, marks>>

QueueClear ==
    /\ LET S == clear(State) IN
       /\ queue' = S.queue
       /\ processed' = S.processed
    /\ expected' = <<>>
    /\ marks' = IF queue # <<>> THEN marks \cup {"cleared"} ELSE marks
    /\ lastPeek' = <<>>
    /\ UNCHANGED <<SetupVars, ParseVars, lastExtract, lastUnregister, ManagerVars, lastDrain, drains>>

QueueReset ==
    /\ LET S == reset(State) IN
       /\ queue' = S.queue
       /\ processed' = S.processed
    /\ expected' = <<>>
    /\ drains' = 0
    /\ marks' = IF processed THEN {"reprocess"} ELSE marks \ {"cleared"}
    /\ lastPeek' = <<>>
    /\ UNCHANGED <<SetupVars, ParseVars, lastExtract, lastUnregister, ManagerVars, lastDrain>>

QueueNext ==
    \/ QueueEnqueue
    \/ QueueDrain
    \/ QueuePeek
    \/ QueueMutateReturned
    \/ QueueClear
    \/ QueueReset

QueueSpec == QueueInit /\ [][QueueNext]_vars

(***************************************************************************)
(* The whole library: the process starts, calls setupInstance once, and    *)
(* then uses the InstanceManager it got while the host delivers            *)
(* second-instance and (on macOS) open-url events.                         *)
(***************************************************************************)
SetupPlatforms == {"darwin", "win32", "linux"}

\* process.argv of this process
SetupArgvs ==
    {<<ArgExe>>, <<ArgExe, UrlLowerA>>, <<ArgExe, UrlX, UrlLowerA>>}
        \cup {<<ArgExe, squirrelEvents[i]>> : i \in 1..Len(squirrelEvents)}
        \cup {<<ArgExe, SquirrelFirstrun, SquirrelInstall>>,
              <<ArgExe, SquirrelObsolete, SquirrelFirstrun>>}

\* argv of a second instance
SecondArgvs ==
    {<<ArgExe>>, <<ArgExe, UrlLowerA>>, <<ArgExe, UrlX, UrlLowerA>>,
     <<ArgExe, UrlLowerA, UrlX>>}

SetupProtocolLists == {<< <<"x">>, <<"m">> >>}

\* Squirrel arguments and the handleSquirrelEvents option occur on Windows;
\* the option is switched off for a process started with a Squirrel argument
SetupInit ==
    /\ Fresh
    /\ protocols = <<>>
    /\ hasHandler \in BOOLEAN
    /\ platform \in SetupPlatforms
    /\ processArgv \in SetupArgvs
    /\ optProtocols \in SetupProtocolLists
    /\ handleSquirrelEvents \in BOOLEAN
    /\ platform # "win32" =>
          /\ handleSquirrelEvents
          /\ ~getSquirrelEvent(processArgv).found
    /\ ~handleSquirrelEvents => processArgv \in {<<ArgExe, SquirrelInstall>>,
                                                 <<ArgExe, SquirrelFirstrun>>}
    /\ phase = "start"
    /\ shouldQuit = FALSE
    /\ lock = "unrequested"
    /\ listening = FALSE
    /\ osRegistered = {}
    /\ protocolResult = [registered |-> <<>>, failed |-> <<>>]
    /\ registerAnswers = <<>>
    /\ setupSteps = <<>>
    /\ parseInput = <<>>

\* options.windows.squirrelOptions.createDesktopShortcut and
\* createStartMenuShortcut not set to false, options.onInstanceLockFailed set
SetupOptionSets ==
    [createDesktopShortcut : BOOLEAN, createStartMenuShortcut : BOOLEAN,
     onInstanceLockFailed : BOOLEAN]

\* setupInstance(options) with what the host answers: granted for
\* app.requestSingleInstanceLock(), success for registerProtocol, call by
\* call, shortcutExists for the desktop shortcut file
SetupInstanceOf(granted, success, opts, shortcutExists) ==
    /\ phase = "start"
    /\ LET r == setupInstance(State, platform, handleSquirrelEvents, processArgv,
                              optProtocols, granted, success, opts, shortcutExists)
       IN /\ Apply(r.state)
          /\ shouldQuit' = r.shouldQuit
          /\ lock' = r.lock
          /\ listening' = r.listening
          /\ osRegistered' = r.osRegistered
          /\ protocolResult' = r.protocolResult
          /\ registerAnswers' = IF r.shouldQuit THEN <<>> ELSE success
          /\ setupSteps' = r.steps
    /\ phase' = "done"
    /\ NoReturn
    /\ UNCHANGED <<QueueGhosts, ParseVars, platform, processArgv, optProtocols,
                   handleSquirrelEvents>>

SetupInstance ==
    \E granted \in BOOLEAN, success \in [1..Len(optProtocols) -> BOOLEAN],
       opts \in SetupOptionSets, shortcutExists \in BOOLEAN :
        SetupInstanceOf(granted, success, opts, shortcutExists)

\* Update.exe, spawned by runSquirrelCommand, closes: its 'close' listener
\* calls app.quit()
UpdateExeCloses ==
    /\ phase = "done"
    /\ setupSteps # <<>>
    /\ setupSteps[Len(setupSteps)] = "spawnUpdateExe"
    /\ setupSteps' = Append(setupSteps, "quit")
    /\ Apply(State)
    /\ NoReturn
    /\ UNCHANGED <<QueueGhosts, ParseVars, platform, processArgv, optProtocols,
                   handleSquirrelEvents, phase, shouldQuit, lock, listening,
                   osRegistered, protocolResult, registerAnswers>>

\* an operation of the minimal manager: `() => {}`, `() => []`
Idle ==
    /\ Apply(State)
    /\ NoReturn
    /\ UNCHANGED <<QueueGhosts, SetupVars, ParseVars>>

InstanceProcessPending ==
    /\ phase = "done"
    /\ IF shouldQuit THEN Idle ELSE ProcessPending
    /\ nArrivals' <= MaxSetupArrivals

InstanceGetPending ==
    /\ phase = "done"
    /\ IF shouldQuit THEN Idle ELSE GetPending

InstanceClearPending ==
    /\ phase = "done"
    /\ IF shouldQuit THEN Idle ELSE ClearPending

InstanceQueueDeepLink ==
    /\ phase = "done"
    /\ IF shouldQuit THEN Idle ELSE QueueDeepLink
    /\ nArrivals' <= MaxSetupArrivals

\* InstanceManager.unregisterProtocols: protocolResult.unregisterAll(), which
\* has the platform remove the app as default protocol client of each scheme
InstanceUnregisterProtocols ==
    /\ phase = "done"
    /\ IF shouldQuit
       THEN Idle
       ELSE /\ lastUnregister' = <<unregisterAll(protocolResult)>>
            /\ osRegistered' = osRegistered \ SchemesOf(unregisterAll(protocolResult))
            /\ Apply(State)
            /\ lastPending' = <<>>
            /\ lastExtract' = <<>>
            /\ UNCHANGED <<QueueGhosts, ParseVars, platform, processArgv, optProtocols,
                           handleSquirrelEvents, phase, shouldQuit, lock, listening,
                           protocolResult, registerAnswers, setupSteps>>

\* the 'second-instance' event of the host, a task of the event loop,
\* explored while fewer than `cap` deep links have arrived
SecondInstanceWithin(argv, cap) ==
    /\ phase = "done"
    /\ listening
    /\ microtasks = <<>>
    /\ nArrivals < cap
    /\ LET call(b) == secondInstanceHandler(State, platform, argv, optProtocols, b)
       IN \E b \in Effective(call, nArrivals + 1) : Apply(call(b))
    /\ nArrivals' <= cap
    /\ lastExtract' = <<extractDeepLinkFromArgs(platform, argv, optProtocols)>>
    /\ lastUnregister' = <<>>
    /\ lastPending' = <<>>
    /\ UNCHANGED <<QueueGhosts, SetupVars, ParseVars>>

SecondInstanceOf(argv) == SecondInstanceWithin(argv, MaxSetupArrivals)

SecondInstance == \E argv \in SecondArgvs : SecondInstanceOf(argv)

\* the 'open-url' event of macOS
OpenUrl ==
    /\ phase = "done"
    /\ ~shouldQuit
    /\ platform = "darwin"
    /\ \E url \in Urls : HandleDeepLinkOf(url, "open-url")
    /\ nArrivals' <= MaxSetupArrivals

SetupRunMicrotask ==
    /\ RunMicrotask
    /\ nArrivals' <= MaxSetupArrivals

SetupNext ==
    \/ SetupInstance
    \/ InstanceProcessPending
    \/ InstanceGetPending
    \/ InstanceClearPending
    \/ InstanceQueueDeepLink
    \/ InstanceUnregisterProtocols
    \/ SecondInstance
    \/ OpenUrl
    \/ SetupRunMicrotask
    \/ SettleConsumer
    \/ UpdateExeCloses

SetupSpec == SetupInit /\ [][SetupNext]_vars

(***************************************************************************)
(* A process launched by a deep link: process.argv holds one, the lock is  *)
(* granted or not, and second instances are launched afterwards.  The      *)
(* launch deep link is explored with MaxSetupArrivals more on top of it.   *)
(***************************************************************************)
RelaunchCap == MaxSetupArrivals + 1

RelaunchInit ==
    /\ SetupInit
    /\ extractDeepLinkFromArgs(platform, processArgv, optProtocols).found

RelaunchSecondInstanceOf(argv) == SecondInstanceWithin(argv, RelaunchCap)

RelaunchSecondInstance ==
    \E argv \in SecondArgvs : RelaunchSecondInstanceOf(argv)

RelaunchProcessPending ==
    /\ phase = "done"
    /\ IF shouldQuit THEN Idle ELSE ProcessPending
    /\ nArrivals' <= RelaunchCap

RelaunchRunMicrotask ==
    /\ RunMicrotask
    /\ nArrivals' <= RelaunchCap

RelaunchNext ==
    \/ SetupInstance
    \/ RelaunchSecondInstance
    \/ RelaunchProcessPending
    \/ RelaunchRunMicrotask
    \/ SettleConsumer

RelaunchSpec == RelaunchInit /\ [][RelaunchNext]_vars

(***************************************************************************)
(* The platform extractors as functions: one application of                *)
(* getPlatformHandler().extractDeepLinkFromArgs to every argument vector   *)
(* of up to MaxArgs arguments, on every platform.                          *)
(***************************************************************************)
ArgvsUpTo(n) == UNION {[1..k -> Args] : k \in 0..n}

ExtractInit ==
    /\ Fresh
    /\ protocols = <<>>
    /\ hasHandler = FALSE
    /\ platform \in Platforms
    /\ processArgv \in ArgvsUpTo(MaxArgs)
    /\ optProtocols \in ProtocolLists
    /\ handleSquirrelEvents = TRUE
    /\ phase = "start"
    /\ shouldQuit = FALSE
    /\ lock = "unrequested"
    /\ listening = FALSE
    /\ osRegistered = {}
    /\ protocolResult = [registered |-> <<>>, failed |-> <<>>]
    /\ registerAnswers = <<>>
    /\ setupSteps = <<>>
    /\ parseInput = <<>>

ExtractDeepLink ==
    /\ lastExtract = <<>>
    /\ lastExtract' = <<extractDeepLinkFromArgs(platform, processArgv, optProtocols)>>
    /\ lastUnregister' = <<>>
    /\ UNCHANGED <<queue, processed, ManagerVars, QueueGhosts, SetupVars, ParseVars>>

ExtractNext == ExtractDeepLink

ExtractSpec == ExtractInit /\ [][ExtractNext]_vars

(***************************************************************************)
(* The url-parser as functions: parseDeepLink and createDeepLinkContext    *)
(* applied to every string of up to MaxUrlLen characters of UrlAlphabet.   *)
(***************************************************************************)
UrlAlphabet == {"m", "M", "a", ":", "/", " "}

StringsUpTo(n) == UNION {[1..k -> UrlAlphabet] : k \in 0..n}

ParseInit ==
    /\ Fresh
    /\ protocols = <<>>
    /\ hasHandler = FALSE
    /\ platform = "linux"
    /\ processArgv = <<ArgExe>>
    /\ optProtocols = <<>>
    /\ handleSquirrelEvents = TRUE
    /\ phase = "start"
    /\ shouldQuit = FALSE
    /\ lock = "unrequested"
    /\ listening = FALSE
    /\ osRegistered = {}
    /\ protocolResult = [registered |-> <<>>, failed |-> <<>>]
    /\ registerAnswers = <<>>
    /\ setupSteps = <<>>
    /\ parseInput \in StringsUpTo(MaxUrlLen)

ParseDeepLink ==
    /\ lastParse' = <<[fn |-> "parseDeepLink", intent |-> Undefined,
                       result |-> parseDeepLink(parseInput)]>>
    /\ UNCHANGED <<queue, processed, ManagerVars, QueueGhosts, SetupVars, lastExtract, lastUnregister,
                   parseInput>>

CreateDeepLinkContext ==
    \E intent \in Intents :
        /\ lastParse' = <<[fn |-> "createDeepLinkContext", intent |-> intent,
                           result |-> createDeepLinkContext(parseInput, intent)]>>
        /\ UNCHANGED <<queue, processed, ManagerVars, QueueGhosts, SetupVars, lastExtract, lastUnregister,
                       parseInput>>

ParseNext == ParseDeepLink \/ CreateDeepLinkContext

ParseSpec == ParseInit /\ [][ParseNext]_vars

(***************************************************************************)
(* Vocabulary of the properties.                                           *)
(***************************************************************************)
\* the URL parses and its scheme is in the protocol registry
AcceptedUrl(url) ==
    /\ parseDeepLink(url).ok
    /\ includes(protocols, parseDeepLink(url).protocol)

EffectiveIntent(intentArg) ==
    IF intentArg = Undefined THEN "open-url" ELSE intentArg

IdsOf(seq) == {seq[i].id : i \in 1..Len(seq)}
IdSeq(seq) == [i \in 1..Len(seq) |-> seq[i].id]

\* the step runs a deferred handleDeepLink(url, intent)
RunsDeferred(url) ==
    /\ microtasks # <<>>
    /\ Head(microtasks).kind = "deferred"
    /\ Head(microtasks).url = url
    /\ RunMicrotask

\* the entries the drain loop of processPending still has to dispatch
LoopRests ==
    {microtasks[i].rest : i \in {k \in 1..Len(microtasks) : microtasks[k].fromLoop}}
        \cup {p.rest : p \in {q \in inflight : q.fromLoop}}

\* the consumer invocations made for drained entries, in order
DispatchedFromDrain ==
    LET ids == IdsOf(drained) IN
    IdSeq(SelectSeq(calls, LAMBDA c : c.id \in ids))

\* no job is waiting and no consumer promise is open
Quiescent == microtasks = <<>> /\ inflight = {}

(***************************************************************************)
(* C1: before processPending has been called, a handleDeepLink or          *)
(* queueDeepLink call never invokes the consumer, and a URL that parses    *)
(* and has a registered scheme is appended to the queue.                   *)
(***************************************************************************)
C1_QueuedBeforeReady ==
    [][ /\ ~processed' => calls' = <<>>
        /\ (~processed /\ nArrivals' > nArrivals) =>
             \A url \in Urls, intentArg \in Intents \cup {Undefined} :
                ( \/ intentArg \in Intents /\ HandleDeepLinkOf(url, intentArg)
                  \/ QueueDeepLinkOf(url, intentArg) )
                => /\ calls' = calls
                   /\ AcceptedUrl(url) =>
                         queue' = Append(queue, [url |-> url,
                                                 intent |-> EffectiveIntent(intentArg),
                                                 id |-> nArrivals + 1])
      ]_vars

C1_Witness ==
    /\ ~processed
    /\ Len(queue) >= 2
    /\ calls = <<>>
    /\ hasHandler

(***************************************************************************)
(* C2: once processPending has executed, a handleDeepLink call with a URL  *)
(* that parses and has a registered scheme invokes the consumer with that  *)
(* URL in the same step and appends nothing: the queue stays empty.        *)
(***************************************************************************)
C2_PassthroughAfterReady ==
    [][ /\ processed => queue' = <<>>
        /\ (processed /\ hasHandler /\ nArrivals' > nArrivals) =>
             \A url \in Urls, intent \in Intents :
                (AcceptedUrl(url) /\ HandleDeepLinkOf(url, intent))
                => calls' = Append(calls, [url |-> url, intent |-> intent,
                                           id |-> nArrivals + 1])
        /\ ( /\ processed /\ hasHandler
             /\ IF microtasks # <<>> THEN Head(microtasks).kind = "deferred" ELSE FALSE ) =>
             \A url \in Urls :
                (AcceptedUrl(url) /\ RunsDeferred(url))
                => calls' = Append(calls, [url |-> url,
                                           intent |-> Head(microtasks).intent,
                                           id |-> Head(microtasks).id])
      ]_vars

C2_Witness ==
    /\ processed
    /\ queue = <<>>
    /\ \E i \in 1..Len(calls) : calls[i].id \notin IdsOf(drained)

(***************************************************************************)
(* C3: the consumer is invoked in arrival order: a deep link handed to the *)
(* pipeline earlier is never dispatched after one handed to it later.      *)
(***************************************************************************)
C3_ArrivalOrder ==
    \A i, j \in 1..Len(calls) : i < j => calls[i].id < calls[j].id

(***************************************************************************)
(* C4: no arrival is delivered twice: the consumer invocations carry       *)
(* pairwise different arrivals.                                            *)
(***************************************************************************)
C4_AtMostOnce ==
    \A i, j \in 1..Len(calls) : i # j => calls[i].id # calls[j].id

C4_Witness ==
    /\ Len(drained) >= 2
    /\ IdsOf(drained) \subseteq IdsOf(calls)
    /\ \E i \in 1..Len(calls) : calls[i].id \notin IdsOf(drained)

(***************************************************************************)
(* C5: with a consumer configured, processPending eventually called,       *)
(* clearPending never called and every consumer invocation completing,     *)
(* every accepted deep link is eventually passed to the consumer.          *)
(***************************************************************************)
LiveInit == Init /\ hasHandler

\* the actions of the manager but clearPending, within MaxLiveArrivals
LiveHandleDeepLink == HandleDeepLink /\ nArrivals' <= MaxLiveArrivals
LiveQueueDeepLink  == QueueDeepLink /\ nArrivals' <= MaxLiveArrivals
LiveProcessPending == ProcessPending /\ nArrivals' <= MaxLiveArrivals
LiveRunMicrotask   == RunMicrotask /\ nArrivals' <= MaxLiveArrivals

LiveNext ==
    \/ LiveHandleDeepLink
    \/ LiveQueueDeepLink
    \/ LiveProcessPending
    \/ GetPending
    \/ LiveRunMicrotask
    \/ SettleConsumer

\* the application does call processPending; the event loop runs every job;
\* every promise a consumer returned settles
LiveSpec ==
    /\ LiveInit
    /\ [][LiveNext]_vars
    /\ WF_vars(LiveProcessPending)
    /\ WF_vars(LiveRunMicrotask)
    /\ WF_vars(SettleConsumer)

\* the accepted deep links not passed to the consumer yet
WaitingIds ==
    IdsOf(queue)
      \cup {microtasks[i].id :
              i \in {k \in 1..Len(microtasks) :
                       /\ microtasks[k].kind = "deferred"
                       /\ AcceptedUrl(microtasks[k].url)}}
      \cup UNION {IdsOf(r) : r \in LoopRests}

\* a deep link stops waiting only by being passed to the consumer, and no
\* deep link waits for ever
C5_EventualDelivery ==
    /\ [][\A id \in WaitingIds : id \in WaitingIds' \/ id \in IdsOf(calls')]_vars
    /\ \A id \in 1..MaxArrivals : []<>(id \notin WaitingIds)

C5_Witness ==
    /\ Len(drained) >= 1
    /\ IdsOf(drained) \subseteq IdsOf(calls)
    /\ \E i \in 1..Len(calls) : calls[i].id \notin IdsOf(drained)
    /\ Quiescent

(***************************************************************************)
(* C6: the first drain() after construction or reset returns exactly the   *)
(* entries of the enqueue calls made since (no clear in between), one per  *)
(* call and in the order of the calls.                                     *)
(***************************************************************************)
C6_QueueFIFO ==
    [][(drains = 0 /\ QueueDrain) => lastDrain' = expected]_vars

C6_Witness ==
    /\ drains = 1
    /\ Len(lastDrain) >= 3
    /\ lastDrain = expected
    /\ lastDrain[1] # lastDrain[2]

(***************************************************************************)
(* C7: a drain() that is not the first since construction or reset returns *)
(* the empty sequence, whatever enqueue, peek or clear calls came between. *)
(***************************************************************************)
C7_OneShotDrain == drains = 2 => lastDrain = <<>>

C7_Witness ==
    /\ drains = 2
    /\ lastDrain = <<>>
    /\ expected # <<>>
    /\ processed

(***************************************************************************)
(* C8: a URL that parses but whose scheme is not registered is dropped in  *)
(* every queue state: the call leaves queue, processed flag and consumer   *)
(* history as they are, and no consumer invocation ever carries a URL      *)
(* whose scheme is not registered.                                         *)
(***************************************************************************)
C8_UnregisteredDropped ==
    [][ /\ calls' # calls => \A i \in 1..Len(calls') : AcceptedUrl(calls'[i].url)
        /\ (nArrivals' > nArrivals) =>
              \A url \in {u \in Urls : parseDeepLink(u).ok /\ ~AcceptedUrl(u)} :
                 /\ \A intent \in Intents :
                       HandleDeepLinkOf(url, intent) =>
                          UNCHANGED <<queue, processed, calls, microtasks, inflight>>
                 /\ \A intentArg \in Intents \cup {Undefined} :
                       QueueDeepLinkOf(url, intentArg) =>
                          UNCHANGED <<queue, processed, calls, inflight>>
        /\ (microtasks # <<>> /\ Head(microtasks).kind = "deferred") =>
              \A url \in {u \in Urls : parseDeepLink(u).ok /\ ~AcceptedUrl(u)} :
                 RunsDeferred(url) =>
                    /\ UNCHANGED <<queue, processed, calls, inflight>>
                    /\ microtasks' = Tail(microtasks)
      ]_vars

C8_Witness ==
    /\ processed
    /\ nArrivals = 3
    /\ log = [failedToParse |-> 0, unregistered |-> 1]
    /\ IdSeq(calls) = <<1, 3>>
    /\ queue = <<>>

(***************************************************************************)
(* C9: a handleDeepLink call with a URL that does not parse changes        *)
(* nothing the pipeline acts on: no consumer invocation, no exception, and *)
(* queue, processed flag, jobs and open promises stay as they are.         *)
(***************************************************************************)
C9_MalformedIgnored ==
    [][ /\ (nArrivals' > nArrivals) =>
              \A url \in {u \in Urls : ~parseDeepLink(u).ok}, intent \in Intents :
                 HandleDeepLinkOf(url, intent) =>
                    UNCHANGED <<queue, processed, calls, microtasks, inflight,
                                failed, escaped, protocols, hasHandler>>
        /\ (microtasks # <<>> /\ Head(microtasks).kind = "deferred") =>
              \A url \in {u \in Urls : ~parseDeepLink(u).ok} :
                 RunsDeferred(url) =>
                    /\ UNCHANGED <<queue, processed, calls, inflight,
                                   failed, escaped, protocols, hasHandler>>
                    /\ microtasks' = Tail(microtasks)
      ]_vars

C9_Witness ==
    /\ ~processed
    /\ nArrivals = 3
    /\ log = [failedToParse |-> 1, unregistered |-> 0]
    /\ IdSeq(queue) = <<1, 3>>

(***************************************************************************)
(* C10: a consumer that throws or rejects never gets its failure past      *)
(* dispatchDeepLink, and the drain loop of processPending is not stopped   *)
(* by it: at every moment the drained entries are, in order, those already *)
(* passed to the consumer followed by those the loop still holds.          *)
(***************************************************************************)
C10_FailureContained ==
    /\ ~escaped
    /\ hasHandler =>
          IF LoopRests = {}
          THEN DispatchedFromDrain = IdSeq(drained)
          ELSE \A r \in LoopRests : DispatchedFromDrain \o IdSeq(r) = IdSeq(drained)

C10_Witness ==
    \E i, j \in 1..Len(calls) :
        /\ i < j
        /\ calls[i].id \in failed
        /\ calls[i].id \in IdsOf(drained)
        /\ calls[j].id \in IdsOf(drained)

(***************************************************************************)
(* C11: once the queue is processed, a queueDeepLink call returns without  *)
(* having invoked the consumer and without appending to the queue: all it  *)
(* does is put handleDeepLink(url, intent) in the job queue.  As long as   *)
(* that job waits, the consumer has not been invoked for it; so the        *)
(* invocation happens in a later turn, when the job is run.                *)
(***************************************************************************)
C11_DeferredAfterReady ==
    [][ /\ (processed /\ nArrivals' > nArrivals) =>
             \A url \in Urls, intentArg \in Intents \cup {Undefined} :
                QueueDeepLinkOf(url, intentArg)
                => /\ UNCHANGED <<calls, queue, processed, inflight, failed>>
                   /\ microtasks' = Append(microtasks,
                                           Deferred(url, EffectiveIntent(intentArg),
                                                    nArrivals + 1))
        /\ \A i \in 1..Len(microtasks') :
              microtasks'[i].kind = "deferred" =>
                 /\ microtasks'[i].id \notin IdsOf(calls')
                 /\ microtasks'[i].id \notin IdsOf(queue')
      ]_vars

C11_Witness ==
    /\ processed
    /\ hasHandler
    /\ \E i \in 1..Len(microtasks) :
          /\ microtasks[i].kind = "deferred"
          /\ AcceptedUrl(microtasks[i].url)
          /\ microtasks[i].id \notin IdsOf(calls)

(***************************************************************************)
(* C12: while the queue is not processed, queueDeepLink(url, intent)       *)
(* leaves the manager in the state handleDeepLink(url, intent) leaves it   *)
(* in from the same state: same queue, same processed flag, same consumer  *)
(* history, for every URL (accepted, unregistered, malformed) and intent.  *)
(***************************************************************************)
C12_QueueLikeHandleBeforeReady ==
    [][ (~processed /\ nArrivals' > nArrivals) =>
           \A url \in Urls, intent \in Intents :
              QueueDeepLinkOf(url, intent)
              => LET H == handleDeepLink(arrive(State), url, intent,
                                         nArrivals + 1, Plain)
                 IN /\ queue' = H.queue
                    /\ processed' = H.processed
                    /\ calls' = H.calls
                    /\ microtasks' = H.microtasks
                    /\ log' = H.log
      ]_vars

C12_Witness ==
    /\ ~processed
    /\ nArrivals = 3
    /\ log = [failedToParse |-> 1, unregistered |-> 1]
    /\ Len(queue) = 1
    /\ queue[1].intent = "launch"
    /\ calls = <<>>

(***************************************************************************)
(* C19: once the queue is processed, enqueue is a no-op: the entries stay  *)
(* empty and the processed flag stays set, so size() stays 0, whatever the *)
(* url and the intent and however often it is called.                      *)
(***************************************************************************)
C19_EnqueueAfterDrainNoOp ==
    [][ (processed /\ QueueEnqueue) =>
           /\ queue' = queue
           /\ processed' = processed
           /\ Len(queue') = 0
      ]_vars

\* after the first drain, enqueue has been called (expected has grown)
C19_Witness ==
    /\ processed
    /\ drains = 1
    /\ Len(expected) >= Len(lastDrain) + 2
    /\ size(State) = 0

(***************************************************************************)
(* C20: peek returns the current entries, in the order of their enqueue    *)
(* calls, and changes neither the entries nor the processed flag; whatever *)
(* the caller then does to the array returned or to its elements changes   *)
(* neither, so a later peek or drain returns what it would have returned.  *)
(***************************************************************************)
C20_PeekIsSnapshot ==
    [][ /\ QueuePeek =>
              /\ lastPeek'[1].result = queue
              /\ lastPeek'[1].result = IF processed THEN <<>> ELSE expected
              /\ UNCHANGED <<queue, processed>>
        /\ QueueMutateReturned =>
              /\ UNCHANGED <<queue, processed>>
              /\ peek(State)' = peek(State)
              /\ drain(State)' = drain(State)
      ]_vars

\* a peek has returned two entries (and the caller may now change them)
C20_Witness ==
    /\ lastPeek # <<>>
    /\ Len(lastPeek[1].result) >= 2
    /\ lastPeek[1].result[1] # lastPeek[1].result[2]
    /\ ~processed

(***************************************************************************)
(* C18: the extractor returns the reference scan of its platform: the      *)
(* first element of argv that starts with '<p>://' for a p of protocols    *)
(* on macOS and Linux, the last such element on Windows; it returns        *)
(* nothing exactly when no element matches, and what it returns is an      *)
(* element of argv.                                                        *)
(***************************************************************************)
\* arg is p followed by '://' followed by anything, for some p of the list
HasSchemePrefix(arg, protocolList) ==
    \E k \in 1..Len(protocolList) :
        LET p == protocolList[k] IN
        /\ Len(arg) >= Len(p) + 3
        /\ \A j \in 1..Len(p) : arg[j] = p[j]
        /\ arg[Len(p) + 1] = ":"
        /\ arg[Len(p) + 2] = "/"
        /\ arg[Len(p) + 3] = "/"

\* the positions of processArgv that hold a deep link of optProtocols
MatchingPositions ==
    {i \in 1..Len(processArgv) : HasSchemePrefix(processArgv[i], optProtocols)}

C18_ExtractMatchesReference ==
    lastExtract # <<>> =>
        LET r == lastExtract[1]
            M == MatchingPositions
        IN IF M = {}
           THEN ~r.found
           ELSE /\ r.found
                /\ \E i \in 1..Len(processArgv) : processArgv[i] = r.url
                /\ r.url = processArgv[IF platform = "win32"
                                       THEN CHOOSE i \in M : \A j \in M : j <= i
                                       ELSE CHOOSE i \in M : \A j \in M : i <= j]

\* Windows, two different deep links in argv: the later one is returned
C18_Witness ==
    /\ lastExtract # <<>>
    /\ platform = "win32"
    /\ \E i, j \in MatchingPositions :
          /\ i < j
          /\ processArgv[i] # processArgv[j]
          /\ lastExtract[1] = Found(processArgv[j])
    /\ processArgv[Len(processArgv)] = ArgExe

(***************************************************************************)
(* C13: once the queue is processed it stays processed, whatever the       *)
(* application calls on the InstanceManager (processPendingDeepLinks,      *)
(* getPendingDeepLinks, clearPendingDeepLinks, queueDeepLink,              *)
(* unregisterProtocols) and whatever deep links the host delivers.         *)
(***************************************************************************)
C13_ReadyIrreversible ==
    [][processed => processed']_vars

\* processed, a deep link dispatched since, and the schemes unregistered
C13_Witness ==
    /\ phase = "done"
    /\ processed
    /\ drained = <<>>
    /\ calls # <<>>
    /\ protocols # <<>>
    /\ osRegistered = {}

(***************************************************************************)
(* C14: when the single-instance lock is denied, setupInstance returns     *)
(* shouldQuit = true, registers no scheme, registers no listener and       *)
(* creates no pipeline: from then on the consumer is never invoked,        *)
(* nothing is queued, getPendingDeepLinks returns the empty sequence and   *)
(* no operation of the InstanceManager changes anything.                   *)
(***************************************************************************)
C14_LockDeniedInert ==
    [][ lock' = "denied" =>
           /\ shouldQuit'
           /\ osRegistered' = {}
           /\ ~listening'
           /\ protocols' = <<>>
           /\ calls' = <<>>
           /\ queue' = <<>>
           /\ ~processed'
           /\ microtasks' = <<>>
           /\ inflight' = {}
           /\ nArrivals' = 0
           /\ lastPending' = <<>>
           /\ lock = "denied" => UNCHANGED vars
      ]_vars

\* denied although process.argv held a deep link of a configured scheme
C14_Witness ==
    /\ phase = "done"
    /\ lock = "denied"
    /\ shouldQuit
    /\ extractDeepLinkFromArgs(platform, processArgv, optProtocols).found
    /\ hasHandler

(***************************************************************************)
(* C15: on the platform with installer events, whenever process.argv holds *)
(* a Squirrel event (and its handling is not switched off), setupInstance  *)
(* does not request the single-instance lock and returns shouldQuit =      *)
(* true.                                                                   *)
(***************************************************************************)
C15_StartupEventSkipsLock ==
    ( /\ phase = "done"
      /\ platform = "win32"
      /\ handleSquirrelEvents
      /\ getSquirrelEvent(processArgv).found )
    => /\ lock = "unrequested"
       /\ shouldQuit

(***************************************************************************)
(* C16: a second-instance event is received only by the lock holder; the   *)
(* handler runs the platform extractor on the event's argv; if it finds a  *)
(* deep link, the step is one handleDeepLink(url, 'open-url') call for it; *)
(* if it finds none, queue, consumer history, jobs and log are untouched.  *)
(***************************************************************************)
C16_SecondLaunchFeedsPipeline ==
    [][ lastExtract' # <<>> =>
          /\ lock = "granted"
          /\ \A argv \in SecondArgvs :
                SecondInstanceOf(argv) =>
                   LET r == IF platform = "win32"
                            THEN scanBackward(argv, optProtocols, Len(argv))
                            ELSE scanForward(argv, optProtocols, 1)
                   IN /\ lastExtract' = <<r>>
                      /\ IF r.found
                         THEN \E b \in Behaviours(nArrivals + 1) :
                                 LET H == handleDeepLink(arrive(State), r.url, "open-url",
                                                         nArrivals + 1, b)
                                 IN /\ queue' = H.queue
                                    /\ calls' = H.calls
                                    /\ microtasks' = H.microtasks
                                    /\ inflight' = H.inflight
                                    /\ log' = H.log
                                    /\ nArrivals' = H.nArrivals
                                    /\ \A i \in Len(calls) + 1 .. Len(calls') :
                                          calls'[i].intent = "open-url"
                                    /\ \A i \in Len(queue) + 1 .. Len(queue') :
                                          queue'[i].intent = "open-url"
                         ELSE UNCHANGED <<queue, processed, calls, microtasks, inflight,
                                          log, nArrivals, failed, drained>>
      ]_vars

\* a second launch with a deep link, dispatched to the consumer as 'open-url'
C16_Witness ==
    /\ lastExtract = <<Found(UrlLowerA)>>
    /\ processed
    /\ calls = <<[url |-> UrlLowerA, intent |-> "open-url", id |-> 1]>>

(***************************************************************************)
(* C17: when a second instance is launched with an argv that holds a deep  *)
(* link of a registered scheme, the pipeline of the running instance takes *)
(* a URL of that argv: it is queued for the consumer, or passed to it if   *)
(* the queue is processed - whatever other arguments of configured schemes *)
(* the argv holds.                                                         *)
(***************************************************************************)
C17_SecondLaunchDelivered ==
    [][ (lastExtract' # <<>> /\ hasHandler) =>
          \A argv \in SecondArgvs :
             ( /\ SecondInstanceOf(argv)
               /\ \E i \in 1..Len(argv) : HasSchemePrefix(argv[i], protocols) )
             => \E i \in 1..Len(argv) :
                   LET e == [url |-> argv[i], intent |-> "open-url", id |-> nArrivals + 1]
                   IN IF processed
                      THEN calls' = Append(calls, e)
                      ELSE queue' = Append(queue, e)
      ]_vars

(***************************************************************************)
(* C21: clear empties the buffer and leaves the processed flag as it was.  *)
(* After a clear of an unprocessed queue isProcessed() is still false, an  *)
(* enqueue appends one entry, and the next drain returns exactly the       *)
(* entries enqueued after the clear.                                       *)
(***************************************************************************)
C21_ClearKeepsFlag ==
    [][ /\ QueueClear =>
              /\ queue' = <<>>
              /\ processed' = processed
              /\ isProcessed(State)' = isProcessed(State)
        /\ ("cleared" \in marks /\ drains = 0 /\ QueueEnqueue) =>
              /\ ~isProcessed(State)
              /\ Len(queue') = Len(queue) + 1
              /\ queue' = expected'
        /\ ("cleared" \in marks /\ drains = 0 /\ QueueDrain) =>
              lastDrain' = expected
      ]_vars

\* entries were cleared away, two more were enqueued, and a drain returned
\* those two
C21_Witness ==
    /\ "cleared" \in marks
    /\ drains = 1
    /\ Len(lastDrain) = 2
    /\ lastDrain[1] # lastDrain[2]
    /\ lastDrain = expected

(***************************************************************************)
(* C22: reset returns the queue to its initial state from every reachable  *)
(* state: no entries, not processed; the enqueue calls after it append,    *)
(* and the drain after them returns exactly their entries in order,        *)
(* whatever enqueue, drain or clear calls came before the reset.           *)
(***************************************************************************)
C22_ResetRestarts ==
    [][ /\ QueueReset =>
              /\ queue' = <<>>
              /\ ~processed'
              /\ drain(State)' = drain([State EXCEPT !.queue = <<>>, !.processed = FALSE])
        /\ ("reprocess" \in marks /\ drains = 0 /\ QueueEnqueue) =>
              queue' = expected'
        /\ ("reprocess" \in marks /\ drains = 0 /\ QueueDrain) =>
              /\ lastDrain' = expected
              /\ processed'
      ]_vars

\* a drained queue was reset, and the drain after two more enqueue calls
\* returned their entries
C22_Witness ==
    /\ "reprocess" \in marks
    /\ "cleared" \notin marks
    /\ drains = 1
    /\ Len(lastDrain) >= 2
    /\ lastDrain = expected
    /\ processed

(***************************************************************************)
(* C26: in every reachable state of the queue, under any sequence of       *)
(* enqueue, drain, peek, clear and reset calls, a processed queue has no   *)
(* entries.                                                                *)
(***************************************************************************)
C26_ProcessedIsEmpty == processed => queue = <<>>

\* processed for the second time, with enqueue calls made since the drain
C26_Witness ==
    /\ processed
    /\ queue = <<>>
    /\ "reprocess" \in marks
    /\ lastDrain # <<>>
    /\ Len(expected) > Len(lastDrain)

(***************************************************************************)
(* C23: clearPendingDeepLinks called before processPendingDeepLinks drops  *)
(* exactly the entries queued at that moment: none of them is ever passed  *)
(* to the consumer; an accepted URL arriving after the clear is queued     *)
(* again, and processPendingDeepLinks drains what was queued since and     *)
(* dispatches it.                                                          *)
(***************************************************************************)
\* the arrival is nowhere in the pipeline and has not reached the consumer
Gone(id) ==
    /\ id \notin IdsOf(queue) \cup IdsOf(drained) \cup IdsOf(calls)
    /\ \A i \in 1..Len(microtasks) :
          microtasks[i].kind = "deferred" => microtasks[i].id # id

\* some arrival went away without being reported as dropped: it was cleared
ClearedSome ==
    Cardinality({id \in 1..nArrivals : Gone(id)}) > log.failedToParse + log.unregistered

C23_ClearDropsQueued ==
    [][ /\ \A id \in 1..nArrivals : Gone(id) => Gone(id)'
        /\ (~processed /\ ClearPending) =>
              /\ \A id \in IdsOf(queue) : Gone(id)'
              /\ queue' = <<>>
              /\ ~processed'
              /\ UNCHANGED <<calls, microtasks, inflight, nArrivals>>
        /\ (~processed /\ ClearedSome /\ nArrivals' > nArrivals) =>
              \A url \in Urls, intent \in Intents :
                 (HandleDeepLinkOf(url, intent) /\ AcceptedUrl(url)) =>
                     queue' = Append(queue, [url |-> url, intent |-> intent,
                                             id |-> nArrivals + 1])
        /\ (~processed /\ ClearedSome /\ ProcessPending) =>
              /\ drained' = queue
              /\ (hasHandler /\ queue # <<>>) =>
                     /\ Len(calls') = 1
                     /\ calls'[1] = queue[1]
        /\ (processed /\ hasHandler /\ Quiescent) => IdsOf(drained) \subseteq IdsOf(calls)
      ]_vars

\* an arrival was cleared away; a later one was queued, drained and passed
\* to the consumer
C23_Witness ==
    /\ hasHandler
    /\ processed
    /\ ClearedSome
    /\ drained # <<>>
    /\ IdsOf(drained) \subseteq IdsOf(calls)
    /\ \E id \in 1..nArrivals : Gone(id) /\ id < drained[1].id

(***************************************************************************)
(* C24: protocol registration is per scheme.  Every configured scheme is   *)
(* attempted, whether or not an earlier one was refused; the schemes the   *)
(* platform accepted make up `registered` and the ones it refused make up  *)
(* `failed`, both in configuration order, so that every occurrence is in   *)
(* exactly one of the two; and the pipeline filters by `registered`.       *)
(***************************************************************************)
\* the elements of seq at the positions where flags is v, in the order of seq
Pick(seq, flags, v) ==
    LET idx == {i \in 1..Len(seq) : flags[i] = v}
        kth(k) == CHOOSE i \in idx : Cardinality({j \in idx : j <= i}) = k
    IN [k \in 1..Cardinality(idx) |-> seq[kth(k)]]

C24_RegistrationPerScheme ==
    (phase = "done" /\ ~shouldQuit) =>
        /\ Len(registerAnswers) = Len(optProtocols)
        /\ protocolResult.registered = Pick(optProtocols, registerAnswers, TRUE)
        /\ protocolResult.failed = Pick(optProtocols, registerAnswers, FALSE)
        /\ Len(protocolResult.registered) + Len(protocolResult.failed) = Len(optProtocols)
        /\ protocols = protocolResult.registered
        /\ \A url \in Urls :
              AcceptedUrl(url) <=>
                 /\ parseDeepLink(url).ok
                 /\ includes(protocolResult.registered, parseDeepLink(url).protocol)

\* the first scheme was refused and the second one registered all the same
C24_Witness ==
    /\ phase = "done"
    /\ ~shouldQuit
    /\ registerAnswers = <<FALSE, TRUE>>
    /\ protocolResult.failed = <<optProtocols[1]>>
    /\ protocolResult.registered = <<optProtocols[2]>>
    /\ protocols = <<optProtocols[2]>>

(***************************************************************************)
(* Vocabulary of C25: the absolute URLs over UrlAlphabet, by their         *)
(* grammar.  scheme ":" is followed either by "//", an authority and a     *)
(* path, or by a path alone; neither holds a space.  The authority is      *)
(* empty, a host, or a host and ":" with an empty port.                    *)
(***************************************************************************)
UpperCase == {"M"}

ValidAuthority(auth) ==
    LET colons == {i \in 1..Len(auth) : auth[i] = ":"} IN
    \/ colons = {}
    \/ colons = {Len(auth)} /\ Len(auth) >= 2

ValidAbsoluteUrl(s) ==
    \E c \in 2..Len(s) :
        /\ s[c] = ":"
        /\ \A k \in 1..(c-1) : s[k] \in SchemeChars
        /\ \A k \in 1..Len(s) : s[k] # " "
        /\ (Len(s) >= c + 2 /\ s[c+1] = "/" /\ s[c+2] = "/") =>
              \E e \in (c+2)..Len(s) :
                 /\ e < Len(s) => s[e+1] = "/"
                 /\ \A k \in (c+3)..e : s[k] # "/"
                 /\ ValidAuthority(SubSeq(s, c+3, e))

\* the string has no scheme: it is empty, holds no ':', or its first
\* character other than a leading space is not a letter
NoScheme(s) ==
    \/ \A k \in 1..Len(s) : s[k] # ":"
    \/ \E k \in 1..Len(s) :
          /\ \A j \in 1..(k-1) : s[j] = " "
          /\ s[k] \notin SchemeStart \cup {" "}

\* r is a successful parse of s: raw is s, the scheme is lower-case and
\* holds no separator
ParsedAsGiven(s, r) ==
    /\ r # Null
    /\ r.ok
    /\ r.url = s
    /\ r.protocol # <<>>
    /\ \A k \in 1..Len(r.protocol) : r.protocol[k] \notin UpperCase \cup {":", "/"}

\* the call made was createDeepLinkContext, and it returned null exactly
\* if parseDeepLink returns null for the same string
ContextAbsentWithParse(call) ==
    call.fn = "createDeepLinkContext" =>
        /\ (call.result = Null) <=> (parseDeepLink(parseInput) = Null)
        /\ call.result # Null => call.result.intent = call.intent

C27_SequentialDrain ==
    LET n == Len(DispatchedFromDrain)
        toGo == SubSeq(drained, n + 1, Len(drained))
    IN /\ n <= Len(drained)
       /\ DispatchedFromDrain = SubSeq(IdSeq(drained), 1, n)
       /\ \A p \in inflight :
             p.id \in IdsOf(drained) =>
                /\ p.id = drained[n].id
                /\ p.fromLoop
                /\ p.rest = toGo
       /\ hasHandler =>
             /\ \A rest \in LoopRests : rest = toGo
             /\ Quiescent => n = Len(drained)
             /\ n < Len(drained) => LoopRests # {}

\* three entries drained; the second invocation is open and the third
\* entry waits for it
C27_Witness ==
    /\ Len(drained) = 3
    /\ DispatchedFromDrain = <<drained[1].id, drained[2].id>>
    /\ \E p \in inflight : p.id = drained[2].id /\ p.rest = <<drained[3]>>
    /\ drained[3].id \notin IdsOf(calls)

(***************************************************************************)
(* C28: while the consumer invocation of a drained entry has not           *)
(* completed, none of the entries drained after it is dispatched (so if it *)
(* never completes they never are); the rest of the pipeline keeps         *)
(* working: a handleDeepLink call with an accepted URL arriving meanwhile  *)
(* invokes the consumer in that call, leaving the first invocation open,   *)
(* so that two invocations can be in flight together.                      *)
(***************************************************************************)
\* the consumer promises the drain loop of processPending is waiting for
LoopWaits == {p \in inflight : p.fromLoop}

C28_HangingConsumerStallsLoopOnly ==
    [][ /\ \A p \in LoopWaits' : IdsOf(p.rest) \cap IdsOf(calls') = {}
        /\ (LoopWaits # {} /\ nArrivals' > nArrivals) =>
              \A url \in {u \in Urls : AcceptedUrl(u)}, intent \in Intents :
                 HandleDeepLinkOf(url, intent) =>
                    /\ calls' = Append(calls, [url |-> url, intent |-> intent,
                                               id |-> nArrivals + 1])
                    /\ LoopWaits \subseteq LoopWaits'
                    /\ queue' = queue
      ]_vars

\* the first drained entry's invocation is open, the second entry waits,
\* and the invocation for a later arrival is open as well
C28_Witness ==
    /\ Len(drained) = 2
    /\ \E p \in LoopWaits : p.id = drained[1].id /\ p.rest = <<drained[2]>>
    /\ \E q \in inflight : ~q.fromLoop /\ q.id > drained[2].id
    /\ IdSeq(calls) = <<drained[1].id, nArrivals>>

(***************************************************************************)
(* Vocabulary of C29 and C30, about a process launched by a deep link.     *)
(***************************************************************************)
\* setupInstance has scanned process.argv and found a deep link (which is
\* arrival 1)
LaunchFound ==
    /\ phase = "done"
    /\ ~shouldQuit
    /\ extractDeepLinkFromArgs(platform, processArgv, protocols).found

\* setupInstance did a before b
Before(a, b) ==
    \E i, j \in 1..Len(setupSteps') : i < j /\ setupSteps'[i] = a /\ setupSteps'[j] = b

\* the step is setupInstance getting the lock; the deep link its scan of
\* process.argv finds is the first arrival and the only entry of the queue
LaunchLinkFirst ==
    (SetupInstance /\ ~shouldQuit') =>
        LET u == extractDeepLinkFromArgs(platform, processArgv, protocols') IN
        IF u.found
        THEN /\ nArrivals' = 1
             /\ queue' = <<[url |-> u.url, intent |-> "launch", id |-> 1]>>
        ELSE nArrivals' = 0 /\ queue' = <<>>

\* the step is a second-instance event: setupInstance has returned (its scan
\* is done), the entries queued stay where they are and what the event adds
\* comes behind them
RelaunchBehind ==
    lastExtract' # <<>> =>
        /\ phase = "done"
        /\ lock = "granted"
        /\ SubSeq(queue', 1, Len(queue)) = queue
        /\ SubSeq(calls', 1, Len(calls)) = calls
        /\ \A i \in Len(queue) + 1 .. Len(queue') : queue'[i].id = nArrivals + 1
        /\ \A i \in Len(calls) + 1 .. Len(calls') : calls'[i].id = nArrivals + 1
        /\ nArrivals' >= nArrivals

(***************************************************************************)
(* C29 as stated: the startup scan hands its URL to the pipeline before    *)
(* any second-launch URL, running during setup before the relaunch         *)
(* listener is registered; no second-launch URL is evaluated ahead of, or  *)
(* lost in front of, the startup-scan URL.                                 *)
(***************************************************************************)
C29_ScanBeforeListener ==
    [][ /\ (SetupInstance /\ listening') => Before("scan", "listen")
        /\ LaunchLinkFirst
        /\ RelaunchBehind
      ]_vars

(***************************************************************************)
(* C29 as amended: the startup scan hands its URL to the pipeline before   *)
(* any second-launch URL: setupInstance registers the relaunch listener    *)
(* first and scans afterwards, but in one synchronous call, so that no     *)
(* second-instance event is handled before the scan is done; no            *)
(* second-launch URL is evaluated ahead of the startup-scan URL.           *)
(***************************************************************************)
C29_ScanBeforeRelaunch ==
    [][ /\ (SetupInstance /\ listening') =>
              /\ Before("listen", "scan")
              /\ phase' = "done"
        /\ LaunchLinkFirst
        /\ RelaunchBehind
      ]_vars

\* the launch deep link is queued, and the deep link of a second launch
\* behind it
C29_Witness ==
    /\ setupSteps = <<"requestLock", "listen", "register", "scan">>
    /\ Len(queue) = 2
    /\ queue[1].id = 1 /\ queue[1].intent = "launch"
    /\ queue[2].id = 2 /\ queue[2].intent = "open-url"
    /\ lastExtract = <<Found(queue[2].url)>>

(***************************************************************************)
(* C30 as stated: a URL of the process's own launch arguments is handled   *)
(* with intent Launch, and the URL a blocked second instance hands over to *)
(* the running instance is handled with intent Launch as well.             *)
(***************************************************************************)
C30_HandOffIsLaunch ==
    [][ /\ SetupInstance => \A i \in 1..Len(queue') : queue'[i].intent = "launch"
        /\ LaunchFound' =>
              \A i \in 1..Len(calls') : calls'[i].id = 1 => calls'[i].intent = "launch"
        /\ lastExtract' # <<>> =>
              /\ \A i \in Len(queue) + 1 .. Len(queue') : queue'[i].intent = "launch"
              /\ \A i \in Len(calls) + 1 .. Len(calls') : calls'[i].intent = "launch"
      ]_vars

(***************************************************************************)
(* C30 as amended: a URL of the process's own launch arguments is handled  *)
(* with intent Launch; the URL a blocked second instance hands over to the *)
(* running instance is handled with intent RuntimeOpen.                    *)
(***************************************************************************)
C30_LaunchThenRuntimeOpen ==
    [][ /\ SetupInstance => \A i \in 1..Len(queue') : queue'[i].intent = "launch"
        /\ LaunchFound' =>
              \A i \in 1..Len(calls') : calls'[i].id = 1 => calls'[i].intent = "launch"
        /\ lastExtract' # <<>> =>
              /\ \A i \in Len(queue) + 1 .. Len(queue') : queue'[i].intent = "open-url"
              /\ \A i \in Len(calls) + 1 .. Len(calls') : calls'[i].intent = "open-url"
      ]_vars

\* the consumer got the launch deep link as 'launch' and then the deep link
\* of a second launch as 'open-url'
C30_Witness ==
    /\ processed
    /\ IdSeq(calls) = <<1, 2>>
    /\ calls[1].intent = "launch"
    /\ calls[2].intent = "open-url"
    /\ calls[1] = drained[1]
    /\ lastExtract = <<Found(calls[2].url)>>

(***************************************************************************)
(* Vocabulary of C31: the records the pipeline keeps of an arrival.        *)
(***************************************************************************)
Record(r) == [url |-> r.url, intent |-> r.intent, id |-> r.id]

SeqRecords(seq) == {Record(seq[i]) : i \in 1..Len(seq)}

\* the deferred handleDeepLink calls waiting in the job queue
DeferredRecords ==
    {Record(microtasks[i]) :
        i \in {k \in 1..Len(microtasks) : microtasks[k].kind = "deferred"}}

\* every record of an arrival: queued, drained, waiting in the drain loop,
\* deferred, or passed to the consumer
Records ==
    SeqRecords(queue) \cup SeqRecords(drained) \cup SeqRecords(calls)
        \cup DeferredRecords \cup UNION {SeqRecords(rest) : rest \in LoopRests}

(***************************************************************************)
(* C31: the (url, intent) pair is preserved end to end: every record of an *)
(* arrival (queue entry, drained entry, consumer invocation) carries the   *)
(* url and the intent of the handleDeepLink call that brought it, and a    *)
(* consumer invocation made for a drained entry or for a deferred call     *)
(* carries the url and the intent of that entry or call.                   *)
(***************************************************************************)
C31_PairPreserved ==
    [][ /\ \A r1 \in Records' : \A r2 \in Records' : r1.id = r2.id => r1 = r2
        /\ nArrivals' > nArrivals =>
             \A url \in Urls, intent \in Intents :
                HandleDeepLinkOf(url, intent) =>
                   \A r \in Records' :
                      r.id = nArrivals + 1 => r.url = url /\ r.intent = intent
        /\ (microtasks # <<>> /\ Head(microtasks).kind = "deferred") =>
             \A i \in Len(calls) + 1 .. Len(calls') :
                calls'[i].id = Head(microtasks).id =>
                   Record(calls'[i]) = Record(Head(microtasks))
        /\ \A i \in Len(calls) + 1 .. Len(calls') :
              \/ calls'[i].id > nArrivals
              \/ calls'[i].id \in IdsOf(drained')
              \/ /\ microtasks # <<>>
                 /\ Head(microtasks).kind = "deferred"
                 /\ calls'[i].id = Head(microtasks).id
      ]_vars

\* the consumer got a drained 'launch' entry, a drained 'open-url' entry and
\* a deep link dispatched at once
C31_Witness ==
    /\ \E i \in 1..Len(calls) :
          calls[i].id \in IdsOf(drained) /\ calls[i].intent = "launch"
    /\ \E i \in 1..Len(calls) :
          calls[i].id \in IdsOf(drained) /\ calls[i].intent = "open-url"
    /\ \E i \in 1..Len(calls) : calls[i].id \notin IdsOf(drained)

(***************************************************************************)
(* Vocabulary of C32.                                                      *)
(***************************************************************************)
\* unregisterProtocols has been called on a manager that had registered
\* schemes: none of them is registered with the OS any more
Unregistered ==
    /\ phase = "done"
    /\ ~shouldQuit
    /\ protocolResult.registered # <<>>
    /\ osRegistered \cap SchemesOf(protocolResult.registered) = {}

\* the URL parses and its scheme is one that setupInstance registered
RegisteredUrl(url) ==
    /\ parseDeepLink(url).ok
    /\ includes(protocolResult.registered, parseDeepLink(url).protocol)

\* the step has taken the arrival (url, 'open-url'): queued before
\* processPending, passed to the consumer (if there is one) after it
TakenAsOpenUrl(url) ==
    LET e == [url |-> url, intent |-> "open-url", id |-> nArrivals + 1] IN
    IF processed
    THEN hasHandler => calls' = Append(calls, e)
    ELSE queue' = Append(queue, e)

(***************************************************************************)
(* C32: unregisterProtocols requests the OS-level unregistration once for  *)
(* every scheme that was registered and for no scheme whose registration   *)
(* failed, and leaves queue, processed flag and the rest of the manager    *)
(* untouched; afterwards a handleDeepLink call with a URL of a registered  *)
(* scheme is still accepted: queued before processPending, dispatched      *)
(* after it.                                                               *)
(***************************************************************************)
C32_UnregisterKeepsFilter ==
    [][ /\ lastUnregister' # <<>> =>
             LET c == lastUnregister'[1]
                 registered == Pick(optProtocols, registerAnswers, TRUE)
                 refused == Pick(optProtocols, registerAnswers, FALSE)
             IN /\ UNCHANGED <<queue, processed, protocols, hasHandler, microtasks,
                               inflight, calls, failed, escaped, log, nArrivals, drained>>
                /\ \A k \in 1..Len(registered) :
                      Cardinality({i \in 1..Len(c) : c[i] = registered[k]}) = 1
                /\ \A k \in 1..Len(refused) : \A i \in 1..Len(c) : c[i] # refused[k]
                /\ Len(c) = Len(registered)
                /\ osRegistered' = osRegistered \ SchemesOf(registered)
        /\ (Unregistered /\ nArrivals' > nArrivals) =>
             /\ protocols = protocolResult.registered
             /\ \A url \in Urls :
                   (RegisteredUrl(url) /\ HandleDeepLinkOf(url, "open-url"))
                   => TakenAsOpenUrl(url)
             /\ \A argv \in SecondArgvs :
                   LET r == extractDeepLinkFromArgs(platform, argv, optProtocols) IN
                   (r.found /\ RegisteredUrl(r.url) /\ SecondInstanceOf(argv))
                   => TakenAsOpenUrl(r.url)
      ]_vars

\* after unregisterProtocols, with one registration refused, a second
\* launch has brought a deep link of the registered scheme, which is queued
C32_Witness ==
    /\ Unregistered
    /\ protocolResult.failed # <<>>
    /\ lastExtract # <<>>
    /\ lastExtract[1].found
    /\ queue = <<[url |-> lastExtract[1].url, intent |-> "open-url", id |-> 1]>>

(***************************************************************************)
(* Vocabulary of C33.                                                      *)
(***************************************************************************)
SquirrelFlags == {squirrelEvents[i] : i \in 1..Len(squirrelEvents)}

\* the flags for which the process is to quit
QuitFlags == {SquirrelInstall, SquirrelUpdated, SquirrelUninstall, SquirrelObsolete}

\* the first Squirrel flag of argv is one of QuitFlags
FirstFlagQuits(argv) ==
    \E i \in 1..Len(argv) :
        /\ argv[i] \in QuitFlags
        /\ \A j \in 1..(i - 1) : argv[j] \notin SquirrelFlags

Count(seq, x) == Cardinality({i \in 1..Len(seq) : seq[i] = x})

(***************************************************************************)
(* C33: on Windows, handleStartupEvents returns true (and setupInstance    *)
(* yields shouldQuit without asking for the lock) exactly when Squirrel    *)
(* handling is enabled and the first Squirrel flag of process.argv is      *)
(* --squirrel-install, -updated, -uninstall or -obsolete; app.quit is then *)
(* called at once, or Update.exe is spawned and app.quit is called when it *)
(* closes.  It returns false for --squirrel-firstrun, without a Squirrel   *)
(* flag and whenever handleSquirrelEvents is false: nothing is spawned and *)
(* app.quit is not called.                                                 *)
(***************************************************************************)
C33_SquirrelQuitEvents ==
    [][ /\ (phase' = "done" /\ platform = "win32") =>
             LET quits == handleStartupEvents(platform, handleSquirrelEvents, processArgv)
             IN /\ quits <=> (handleSquirrelEvents /\ FirstFlagQuits(processArgv))
                /\ quits <=> (lock' = "unrequested")
                /\ quits => /\ shouldQuit'
                            /\ setupSteps' \in {<<"quit">>, <<"spawnUpdateExe">>,
                                                <<"spawnUpdateExe", "quit">>}
                /\ ~quits => /\ Count(setupSteps', "quit") = 0
                             /\ Count(setupSteps', "spawnUpdateExe") = 0
        /\ (phase = "done" /\ setupSteps # <<>>
              /\ setupSteps[Len(setupSteps)] = "spawnUpdateExe") =>
             (UpdateExeCloses => setupSteps' = <<"spawnUpdateExe", "quit">>)
      ]_vars

\* --squirrel-updated with the desktop shortcut in place: Update.exe was
\* spawned and has closed, app.quit was called
C33_Witness ==
    /\ platform = "win32"
    /\ phase = "done"
    /\ getSquirrelEvent(processArgv) = Found(SquirrelUpdated)
    /\ shouldQuit
    /\ setupSteps = <<"spawnUpdateExe", "quit">>

(***************************************************************************)
(* C34: each launch contributes at most one deep link.  The scan of        *)
(* process.argv in setupInstance makes at most one handleDeepLink call,    *)
(* for the argument the platform extractor selects, and so does every      *)
(* second-instance event, also when the arguments hold several deep links  *)
(* of configured schemes: what the step queues, dispatches or defers       *)
(* carries the selected argument, never another one.                       *)
(***************************************************************************)
C34_OneDeepLinkPerLaunch ==
    [][ /\ (phase = "start" /\ phase' = "done") =>
             LET r == extractDeepLinkFromArgs(platform, processArgv, protocols') IN
             /\ nArrivals' <= 1
             /\ Len(queue') <= 1
             /\ calls' = <<>>
             /\ microtasks' = <<>>
             /\ \A i \in 1..Len(queue') : r.found /\ queue'[i].url = r.url
        /\ lastExtract' # <<>> =>
             LET r == lastExtract'[1]
                 newQueue == Len(queue) + 1 .. Len(queue')
                 newCalls == Len(calls) + 1 .. Len(calls')
             IN /\ Len(queue') <= Len(queue) + 1
                /\ Len(calls') <= Len(calls) + 1
                /\ newQueue = {} \/ newCalls = {}
                /\ SubSeq(queue', 1, Len(queue)) = queue
                /\ SubSeq(calls', 1, Len(calls)) = calls
                /\ \A i \in newQueue : r.found /\ queue'[i].url = r.url
                /\ \A i \in newCalls : r.found /\ calls'[i].url = r.url
                /\ \A rec \in DeferredRecords' : r.found /\ rec.url = r.url
      ]_vars

\* on Windows, launched with x://a and m://a, then a second launch with
\* m://a and x://a: one entry each, the last argument of either
C34_Witness ==
    /\ platform = "win32"
    /\ processArgv = <<ArgExe, UrlX, UrlLowerA>>
    /\ lastExtract = <<Found(UrlX)>>
    /\ queue = <<[url |-> UrlLowerA, intent |-> "launch", id |-> 1],
                 [url |-> UrlX, intent |-> "open-url", id |-> 2]>>

(***************************************************************************)
(* C35: in every reachable state each entry of the queue has a URL that    *)
(* parses and whose scheme is in the protocol registry, so the context the *)
(* drain loop builds again for an entry always exists; with a consumer     *)
(* configured, every drained entry the loop has gone past has been handed  *)
(* to the consumer exactly once, and the entries it still holds not yet.   *)
(***************************************************************************)
InvocationsOf(id) == Cardinality({j \in 1..Len(calls) : calls[j].id = id})

HeldByLoop(id) == \E rest \in LoopRests : id \in IdsOf(rest)

C35_QueueEntriesAccepted ==
    /\ \A i \in 1..Len(queue) :
          /\ AcceptedUrl(queue[i].url)
          /\ createDeepLinkContext(queue[i].url, queue[i].intent).ok
    /\ \A i \in 1..Len(drained) :
          /\ AcceptedUrl(drained[i].url)
          /\ createDeepLinkContext(drained[i].url, drained[i].intent).ok
          /\ hasHandler =>
                InvocationsOf(drained[i].id) =
                    IF HeldByLoop(drained[i].id) THEN 0 ELSE 1

\* two entries were drained, a URL that was refused having arrived before
\* the drain; the loop is past both
C35_Witness ==
    /\ hasHandler
    /\ Len(drained) = 2
    /\ log.unregistered + log.failedToParse > 0
    /\ LoopRests = {}
    /\ \A i \in 1..2 : InvocationsOf(drained[i].id) = 1

(***************************************************************************)
(* C36: once the queue is processed, a consumer that calls queueDeepLink   *)
(* with the URL it was invoked with leaves a job for that URL and intent   *)
(* in the job queue, and nothing in the queue of pending entries.  A       *)
(* deferred job stays in the job queue until the event loop runs it, and   *)
(* running it invokes the consumer with its URL, no processPending call    *)
(* being needed: so a consumer that re-queues at every invocation is       *)
(* invoked again turn after turn and a dispatch is always pending.         *)
(***************************************************************************)
\* the consumer was invoked in this step and called queueDeepLink: an
\* arrival was numbered after the one the consumer was invoked for
ConsumerRequeued ==
    /\ Len(calls') > Len(calls)
    /\ nArrivals' > nArrivals
    /\ nArrivals' # calls'[Len(calls')].id

C36_RequeueKeepsDispatching ==
    [][ /\ ConsumerRequeued =>
              /\ processed'
              /\ Len(calls') = Len(calls) + 1
              /\ queue' = <<>>
              /\ \E i \in 1..Len(microtasks') :
                    microtasks'[i] = Deferred(calls'[Len(calls')].url,
                                              calls'[Len(calls')].intent,
                                              nArrivals')
        /\ \A i \in 1..Len(microtasks) :
              microtasks[i].kind = "deferred" =>
                 \/ \E j \in 1..Len(microtasks') : microtasks'[j] = microtasks[i]
                 \/ /\ i = 1
                    /\ (hasHandler /\ AcceptedUrl(microtasks[1].url)) =>
                          calls' = Append(calls, [url |-> microtasks[1].url,
                                                  intent |-> microtasks[1].intent,
                                                  id |-> microtasks[1].id])
        /\ processed' => queue' = <<>>
      ]_vars

\* the consumer has been invoked twice with one URL, the second time from a
\* deferred job, and the job of its second re-queue waits in front of the
\* continuation of that invocation
C36_Witness ==
    /\ processed
    /\ Len(calls) = 2
    /\ calls[1].url = calls[2].url
    /\ calls[2].id \notin IdsOf(drained)
    /\ Len(microtasks) = 2
    /\ microtasks[1] = Deferred(calls[2].url, calls[2].intent, nArrivals)
    /\ microtasks[2].kind = "resumeDispatch"
    /\ microtasks[2].id = calls[2].id
    /\ nArrivals > calls[2].id

(***************************************************************************)
(* C37: once the queue is processed, the URLs passed to queueDeepLink are  *)
(* dispatched in the order of the calls, each once per call.  The deferred *)
(* jobs wait in the order of their calls; the job that is run is the       *)
(* oldest one and, for an accepted URL with a consumer configured, yields  *)
(* exactly one invocation, with the job's URL, intent and arrival number;  *)
(* an invocation for an arrival that was not drained from the queue comes  *)
(* after the invocations of all earlier such arrivals and before those of  *)
(* the jobs still waiting, and no arrival is invoked twice.                *)
(***************************************************************************)
DeferredJobs(jobs) == SelectSeq(jobs, LAMBDA t : t.kind = "deferred")

C37_DeferredInCallOrder ==
    [][ /\ \A i \in 1..Len(DeferredJobs(microtasks')) :
              \A j \in 1..Len(DeferredJobs(microtasks')) :
                 i < j => DeferredJobs(microtasks')[i].id < DeferredJobs(microtasks')[j].id
        /\ \A i \in Len(calls) + 1..Len(calls') :
              /\ calls'[i].id \notin IdsOf(calls)
              /\ calls'[i].id \notin IdsOf(drained') =>
                    /\ \A k \in 1..Len(calls) :
                          calls[k].id \notin IdsOf(drained') => calls[k].id < calls'[i].id
                    /\ \A k \in 1..Len(DeferredJobs(microtasks')) :
                          DeferredJobs(microtasks')[k].id > calls'[i].id
        /\ (/\ DeferredJobs(microtasks) # <<>>
            /\ Len(DeferredJobs(microtasks')) < Len(DeferredJobs(microtasks))
               \/ Head(DeferredJobs(microtasks)).id \notin IdsOf(microtasks')) =>
              /\ microtasks[1] = Head(DeferredJobs(microtasks))
              /\ (hasHandler /\ AcceptedUrl(microtasks[1].url)) =>
                    /\ Len(calls') = Len(calls) + 1
                    /\ calls'[Len(calls')] = [url |-> microtasks[1].url,
                                              intent |-> microtasks[1].intent,
                                              id |-> microtasks[1].id]
      ]_vars

\* two queueDeepLink calls made after the drain, with different intents, have
\* both been dispatched in the order of the calls: the second job was
\* waiting when the first one ran, and both continuations are still due
C37_Witness ==
    /\ processed
    /\ drained = <<>>
    /\ IdSeq(calls) = <<1, 2>>
    /\ calls[1].intent # calls[2].intent
    /\ Len(microtasks) = 2
    /\ \A i \in 1..2 : microtasks[i].kind = "resumeDispatch" /\ microtasks[i].id = i

(***************************************************************************)
(* C38: entries drained by processPendingDeepLinks can neither be observed *)
(* nor cancelled.  Once the queue is processed, getPendingDeepLinks        *)
(* returns the empty list, also while the drain loop still holds entries;  *)
(* clearPendingDeepLinks then changes neither the loop, the job queue, the *)
(* open promises nor the invocations made; and, with a consumer            *)
(* configured, an entry leaves the loop in no other way than by being      *)
(* passed to the consumer, whatever operation the step is.                 *)
(***************************************************************************)
\* the drained entries the loop has not dispatched yet
AwaitingDispatch == {id \in IdsOf(drained) : HeldByLoop(id)}

C38_DrainedOutOfReach ==
    [][ /\ (processed /\ GetPending) =>
              /\ lastPending' = <<>>
              /\ AwaitingDispatch' = AwaitingDispatch
        /\ (processed /\ ClearPending) =>
              /\ AwaitingDispatch' = AwaitingDispatch
              /\ UNCHANGED <<microtasks, inflight, calls, drained, processed>>
        /\ processed' => getPending(State)' = <<>>
        /\ hasHandler =>
              \A id \in AwaitingDispatch :
                 id \in AwaitingDispatch' \/ id \in IdsOf(calls')
      ]_vars

\* the queue is processed, the consumer's promise for the first of three
\* drained entries is open and the loop holds the other two: nothing is
\* pending for getPendingDeepLinks to return or clearPendingDeepLinks to drop
C38_Witness ==
    /\ processed
    /\ hasHandler
    /\ Len(drained) = 3
    /\ Len(calls) = 1
    /\ Cardinality(AwaitingDispatch) = 2
    /\ \E p \in inflight : p.fromLoop /\ Len(p.rest) = 2
    /\ getPending(State) = <<>>

(***************************************************************************)
(* C39: setupInstance returns shouldQuit = true exactly when               *)
(* handleStartupEvents handled a startup event or                          *)
(* app.requestSingleInstanceLock() was called and answered false; the      *)
(* onInstanceLockFailed option, when set, is called once in the second     *)
(* case and is not called when the lock is granted, when a startup event   *)
(* ended the setup, or by any later operation.                             *)
(***************************************************************************)
C39_QuitFollowsLock ==
    [][ /\ (phase = "start" /\ phase' = "done") =>
              \A handled \in {handleStartupEvents(platform, handleSquirrelEvents,
                                                  processArgv)} :
                 \A granted \in BOOLEAN, success \in [1..Len(optProtocols) -> BOOLEAN],
                    opts \in SetupOptionSets, shortcutExists \in BOOLEAN :
                    SetupInstanceOf(granted, success, opts, shortcutExists) =>
                       /\ shouldQuit' <=> (handled \/ ~granted)
                       /\ lock' = IF handled THEN "unrequested"
                                  ELSE IF granted THEN "granted" ELSE "denied"
                       /\ Count(setupSteps', "requestLock") = IF handled THEN 0 ELSE 1
                       /\ Count(setupSteps', "onInstanceLockFailed") =
                             IF ~handled /\ ~granted /\ opts.onInstanceLockFailed
                             THEN 1 ELSE 0
        /\ phase = "done" =>
              /\ shouldQuit' = shouldQuit
              /\ Count(setupSteps', "onInstanceLockFailed") =
                    Count(setupSteps, "onInstanceLockFailed")
        /\ Count(setupSteps', "onInstanceLockFailed") > 0 =>
              /\ lock' = "denied"
              /\ shouldQuit'
              /\ setupSteps' = <<"requestLock", "onInstanceLockFailed">>
      ]_vars

\* the lock was denied on a launch without startup event: the application
\* was told once and setupInstance returned shouldQuit = true
C39_Witness ==
    /\ phase = "done"
    /\ lock = "denied"
    /\ shouldQuit
    /\ ~handleStartupEvents(platform, handleSquirrelEvents, processArgv)
    /\ setupSteps = <<"requestLock", "onInstanceLockFailed">>

====
